---- MODULE Spec2Model ----
(***************************************************************************)
(* State-machine model of sf-browser-control: the SessionManager singleton *)
(* (src/src/server.ts), the OrgManager credential cache                    *)
(* (src/src/salesforce/auth.ts) and the tool handlers that wrap them       *)
(* (src/src/tools/*.tools.ts, src/src/index.ts).                           *)
(*                                                                         *)
(* Tool calls are serialized: one handler is in flight at a time and runs  *)
(* from await point to await point (pc).  The interval timer of the token  *)
(* refresh monitor and the wall clock advance between any two steps.       *)
(***************************************************************************)
EXTENDS Integers, Sequences, FiniteSets, TLC

\* ---------------------------------------------------------------- bounds
MaxStarts == 2          \* startSession calls in one behaviour
MaxTime == 3            \* last clock value (one unit = 15 minutes)

MaxTimeout == 8         \* largest timeout a wait is called with (units)

MaxOptions == 3         \* most lookup candidates the result list holds
MaxVisible == 2         \* most selectors of one list that match at once

\* ------------------------------------------------------ program constants
CACHE_TTL_MS == 2       \* 30 * 60 * 1000 ms, in clock units of 15 minutes

\* the wait strategies measure time in milliseconds; one unit = 250 ms
POLL_INTERVAL == 1      \* pollInterval = 250
URL_SAMPLE == 2         \* waitForTimeout(500) of the URL debounce
STABLE_SAMPLES == 3     \* stableCount < 3
MIN_REMAINING == 4      \* Math.max(..., 1000) of getRemaining
SPINNER_CAP == 60       \* Math.min(getRemaining(), 15000)
STENCIL_CAP == 20       \* Math.min(getRemaining(), 5000)

Aliases == {"orgA", "orgB"}

\* Substrings of an error message that the code tests with includes().
Markers == {"No org", "not found"}

\* Messages the external collaborators fail with.  The credential source
\* (sf CLI run through exec) reports an unknown alias with a message that
\* contains "No org"; any child process or browser failure may carry
\* "not found" (a missing executable, a missing file) or neither.
CliMessages == {{"No org"}, {"not found"}, {}}
BrowserMessages == {{"not found"}, {}}

\* how an awaited collaborator call settles: fulfilled, or rejected with
\* one of the given messages
Outcomes(msgs) ==
  {[ok |-> TRUE, raw |-> {}]} \cup {[ok |-> FALSE, raw |-> m] : m \in msgs}

NullInfo == [alias |-> "null", token |-> -1, instanceUrl |-> "null"]
NoEntry == [orgInfo |-> NullInfo, cachedAt |-> -1, expiresAt |-> -1]
NoError == [step |-> "none", msg |-> {}, raw |-> {}]

VARIABLES
  state,                 \* SessionManager.state (SessionState)
  tokenRefreshInterval,  \* timer id of the monitor, 0 = null
  urlBuilder,            \* instance URL the builder was made with, "null"
  cache,                 \* OrgManager.cache: alias -> entry or NoEntry
  now,                   \* wall clock
  pc,                    \* await point of the call in flight, "idle"
  call,                  \* bookkeeping of the call in flight / last call
  trace,                 \* collaborator calls issued by this call, in order
  statusTrace,           \* values assigned to state.status by this call
  live,                  \* resources launched whose close() was not called
  starts,                \* number of startSession calls so far
  result,                \* how the SessionManager method settled
  prevClose,             \* did a closeSession settle right before this call
  toolResult,            \* what the tool handler returned to the protocol
  lastGet,               \* the last OrgManager.getOrgInfo decision
  pageState,             \* what the page shows to the probes of a wait
  wclock,                \* Date.now() - startTime of the outermost wait
  wpc,                   \* stage of the wait in flight, "idle"
  wcall,                 \* locals and bookkeeping of the wait in flight
  uiPage,                \* what the form on the page holds (checkbox state)
  uiCall,                \* the last SalesforceUIPatterns / record tool call
  urlCall,               \* the last two SalesforceUrlBuilder calls
  proc,                  \* the process: running, shutting down or exited
  tasks                  \* overlapping session calls: task -> await point

vars == <<state, tokenRefreshInterval, urlBuilder, cache, now, pc, call,
          trace, statusTrace, live, starts, result, prevClose, toolResult,
          lastGet, pageState, wclock, wpc, wcall, uiPage, uiCall, urlCall,
          proc, tasks>>

waitVars == <<pageState, wclock, wpc, wcall>>
uiVars == <<uiPage, uiCall>>
sideVars == <<uiVars, urlCall, proc, tasks>>
coreVars == <<state, tokenRefreshInterval, urlBuilder, cache, now, pc, call,
              trace, statusTrace, live, starts, result, prevClose, toolResult,
              lastGet>>

sessVars == <<state, tokenRefreshInterval, urlBuilder>>
histVars == <<call, trace, statusTrace, result, prevClose, toolResult>>

\* ------------------------------------------------------------ data model
InitialState ==
  [browser |-> 0, context |-> 0, page |-> 0, orgInfo |-> NullInfo,
   status |-> "disconnected", lastActivity |-> -1, instanceUrl |-> "null",
   orgAlias |-> "null"]

InstanceUrlOf(alias) == IF alias = "orgA" THEN "https://a" ELSE "https://b"

\* What `sf org display` returns for an alias at a given time: the access
\* token changes with every invocation.
FreshInfo(alias, t) ==
  [alias |-> alias, token |-> t, instanceUrl |-> InstanceUrlOf(alias)]

NoCall ==
  [op |-> "none", alias |-> "null", closeRet |-> "none", err |-> NoError,
   loggedIn |-> "none",
   closeFailed |-> FALSE, ext |-> FALSE, info |-> NullInfo,
   acquired |-> {}, prior |-> {}, wasConnected |-> FALSE,
   probe |-> "none", tool |-> "none", acted |-> FALSE, caught |-> FALSE,
   viaBuilder |-> FALSE]

NoResult ==
  [kind |-> "none", code |-> "none", page |-> 0, raw |-> {},
   suggestion |-> "absent"]
NoToolResult ==
  [kind |-> "none", content |-> <<>>, isError |-> "absent",
   success |-> "absent", code |-> "none", suggestion |-> "absent"]
NoGet ==
  [alias |-> "null", force |-> FALSE, hadEntry |-> FALSE, age |-> 0,
   invoked |-> FALSE, afterClear |-> FALSE, returned |-> NullInfo,
   cached |-> NullInfo, failed |-> FALSE]

\* ---- the page as the wait strategies see it
\* computed style of a matched element
Styles == {"shown", "display_none", "visibility_hidden"}
ToastMarkers == {"success", "error", "warning"}

\* url: "auth" is a frontdoor.jsp / contentDoor / file.force.com URL, "app"
\* and "app2" are two different URLs that contain '/lightning/';
\* dom: the document reached domcontentloaded; shell: the first application
\* shell container found by the selectors; marker: the selector awaited by
\* page.waitForSelector matches; spinners, stencils: the styles of the
\* elements the spinner / stencil selectors match; toast: the toast type
\* markers present
BlankPage ==
  [url |-> "auth", dom |-> FALSE, shell |-> "absent", marker |-> FALSE,
   spinners |-> {}, stencils |-> {}, toast |-> {}]

NoWait ==
  [kind |-> "none", timeout |-> 0, stage |-> 0, start |-> 0, limit |-> 0,
   stableCount |-> 0, lastUrl |-> "none", outcome |-> "none",
   raisedIn |-> "none", toastType |-> "none", probes |-> 0,
   first |-> FALSE, seen |-> FALSE, steady |-> TRUE, slept |-> FALSE,
   regrant |-> FALSE, url |-> {}, invoked |-> <<>>]

InitCore ==
  /\ state = InitialState
  /\ tokenRefreshInterval = 0
  /\ urlBuilder = "null"
  /\ cache = [a \in Aliases |-> NoEntry]
  /\ now = 0
  /\ pc = "idle"
  /\ call = NoCall
  /\ trace = <<>>
  /\ statusTrace = <<>>
  /\ live = {}
  /\ starts = 0
  /\ result = NoResult
  /\ prevClose = "none"
  /\ toolResult = NoToolResult
  /\ lastGet = NoGet

\* ---- the form as the UI patterns see it, and the last pattern call
BlankUi == [checked |-> FALSE]

\* arguments of a pattern call and what the page answers during it
NoInput ==
  [n |-> 0, selectIndex |-> 0, checked |-> FALSE, confirm |-> "absent",
   waitForSave |-> "absent", fail |-> "none", toast |-> "timeout",
   viewUrl |-> FALSE, panel |-> TRUE, search |-> {}, apps |-> {},
   bad |-> {}, probe |-> "none", probe2 |-> "none"]

NoRet == [returned |-> FALSE, success |-> "absent", message |-> "none"]
NoPrev == [op |-> "none", checked |-> FALSE, clicks |-> 0]

\* log: the page actions the call completed, in order; raised: the error
\* that left the pattern ("none" when it returned); ret: what it returned;
\* tool: what a record tool handler returned to the protocol; before: the
\* checkbox state the call found; prev: the call before it
NoUiCall ==
  [op |-> "none", input |-> NoInput, log |-> <<>>, raised |-> "none",
   ret |-> NoRet, tool |-> NoToolResult, before |-> FALSE, prev |-> NoPrev]

\* ---- strings of the URL builder: sequences of pieces, a leading '/'
\* being a piece of its own
Undefined == <<"#undefined">>      \* an optional argument left out
NoUrlCall1 ==
  [fn |-> "none", a |-> Undefined, b |-> Undefined, out |-> <<>>,
   instanceUrl |-> "null"]
NoUrlCall == [last |-> NoUrlCall1, prev |-> NoUrlCall1]

\* pc: "running", the close() the shutdown awaits, or "exited"; held: the
\* handles the session held when the shutdown began; atExit: the resources
\* whose close() had not been called when process.exit ran
Running ==
  [pc |-> "running", cause |-> "none", code |-> -1, held |-> {},
   atExit |-> {}, status |-> "none"]

\* two tool calls the protocol layer has in flight at once
Tasks == {1, 2}
NoTask == [pc |-> "idle", ret |-> "none", alias |-> "null", id |-> 0]
NoTasks == [t \in Tasks |-> NoTask]

InitUi ==
  /\ uiPage = BlankUi
  /\ uiCall = NoUiCall
  /\ urlCall = NoUrlCall
  /\ proc = Running
  /\ tasks = NoTasks

Init ==
  /\ InitCore
  /\ pageState = BlankPage
  /\ wclock = 0
  /\ wpc = "idle"
  /\ wcall = NoWait
  /\ InitUi

\* ------------------------------------------------- tool result shapes
TextContent == [type |-> "text"]
ImageContent == [type |-> "image", mimeType |-> "image/png"]

\* { content: [{type:'text', text: JSON.stringify({success: true, ...})}] }
SuccessResult ==
  [kind |-> "result", content |-> <<TextContent>>, isError |-> "absent",
   success |-> "true", code |-> "none", suggestion |-> "absent"]

\* the SalesforceError branch of every handler's catch: JSON.stringify of
\* {success: false, error: code, message, suggestion: error.suggestion}
\* (an undefined suggestion is left out of the text)
SalesforceErrorResult(code, suggestion) ==
  [kind |-> "result", content |-> <<TextContent>>, isError |-> "true",
   success |-> "false", code |-> code, suggestion |-> suggestion]

\* the plain-text branch: `Failed to <action>: <message>`, isError: true
PlainErrorResult ==
  [kind |-> "result", content |-> <<TextContent>>, isError |-> "true",
   success |-> "absent", code |-> "none", suggestion |-> "absent"]

\* the handler's promise rejected: nothing was returned to the protocol
Escaped ==
  [kind |-> "escaped", content |-> <<>>, isError |-> "absent",
   success |-> "absent", code |-> "none", suggestion |-> "absent"]

\* new SalesforceError(code, message, recoverable, suggestion?) thrown, or a
\* plain Error (code "Error"); suggestion is "present" or "absent"
Raised(code, raw, suggestion) ==
  [kind |-> "raised", code |-> code, page |-> 0, raw |-> raw,
   suggestion |-> suggestion]
Returned(p) ==
  [kind |-> "ok", code |-> "none", page |-> p, raw |-> {},
   suggestion |-> "absent"]

\* --------------------------------------------------------- OrgManager
\* variant: an entry is still served at the instant it expires (`>=`)
CacheHit_Inclusive(alias, forceRefresh) ==
  /\ ~forceRefresh
  /\ cache[alias] # NoEntry
  /\ cache[alias].expiresAt >= now

\* `!forceRefresh && cached && cached.expiresAt > new Date()`
CacheHit(alias, forceRefresh) ==
  /\ ~forceRefresh
  /\ cache[alias] # NoEntry
  /\ cache[alias].expiresAt > now

\* this.cache.set(orgAlias, {orgInfo, cachedAt, expiresAt: now + TTL})
CacheSet(c, alias, info) ==
  [c EXCEPT ![alias] =
     [orgInfo |-> info, cachedAt |-> now, expiresAt |-> now + CACHE_TTL_MS]]

\* SalesforceAuth.getOrgInfo / getFrontdoorUrl: a failure whose message
\* contains 'No org' is rethrown as `Org "<alias>" not found. ...`
AuthRewrite(raw) == IF "No org" \in raw THEN {"not found"} ELSE raw

\* bookkeeping of one getOrgInfo decision
GetRecord(alias, forceRefresh, invoked, returned, failed) ==
  [alias |-> alias, force |-> forceRefresh,
   hadEntry |-> cache[alias] # NoEntry,
   age |-> IF cache[alias] # NoEntry THEN now - cache[alias].cachedAt ELSE 0,
   invoked |-> invoked,
   afterClear |-> lastGet.afterClear /\ lastGet.alias = "null",
   returned |-> returned, cached |-> cache[alias].orgInfo,
   failed |-> failed]

\* ------------------------------------------------------ SessionManager
\* startSession's catch: classification of the caught error by message
ClassifyStartError(msg) ==
  IF "not found" \in msg \/ "No org" \in msg
  THEN "ORG_NOT_FOUND"
  ELSE "AUTHENTICATION_FAILED"

\* variant: the close calls are awaited without `.catch(() => {})`
CloseErrorPropagates == FALSE

\* `.catch(() => {})` on page.close(), context.close(), browser.close()
CloseErrorSwallowed == TRUE

\* the synchronous head of closeSession: clearInterval
StopMonitorTrace(tr) ==
  IF tokenRefreshInterval # 0 THEN Append(tr, "stopMonitor") ELSE tr

\* "live": the previous call was a closeSession of a connected session,
\* "idle": a closeSession with nothing to close, "none": another call
ClosedBefore ==
  IF call.op = "close"
  THEN (IF call.wasConnected THEN "live" ELSE "idle")
  ELSE "none"

BeginCall(c, tr) ==
  /\ call' = c
  /\ trace' = tr
  /\ statusTrace' = <<>>
  /\ result' = NoResult
  /\ toolResult' = NoToolResult
  /\ prevClose' = ClosedBefore

\* closeSession rejects with a close error that was not swallowed: the
\* awaiting caller sees the raw Error.  handleSessionClose awaits it
\* outside any try; handleSessionStart catches it as a non-SalesforceError.
ClosePropagates ==
  /\ pc' = "idle"
  /\ result' = Raised("Error", {}, "absent")
  /\ toolResult' = IF call.closeRet = "close" THEN Escaped ELSE PlainErrorResult
  /\ call' = [call EXCEPT !.closeFailed = TRUE]
  /\ UNCHANGED <<state, statusTrace, prevClose>>

\* one `if (this.state.X) { await this.state.X.close().catch(...);
\* this.state.X = null; }` block of closeSession
CloseStep(here, field, ev, next) ==
  /\ pc = here
  /\ \E outcome \in {"ok", "fail"} :
       IF state[field] # 0
       THEN /\ live' = live \ {<<field, state[field]>>}
            /\ trace' = Append(trace, ev)
            /\ IF outcome = "fail" /\ ~CloseErrorSwallowed
               THEN ClosePropagates
               ELSE /\ state' = [state EXCEPT ![field] = 0]
                    /\ call' = [call EXCEPT
                                  !.closeFailed = @ \/ outcome = "fail"]
                    /\ pc' = next
                    /\ UNCHANGED <<statusTrace, result, prevClose, toolResult>>
       ELSE /\ pc' = next
            /\ UNCHANGED <<state, live, histVars>>
  /\ UNCHANGED <<tokenRefreshInterval, urlBuilder, cache, now, starts,
                 lastGet, waitVars, sideVars>>

\* variant: closeSession has no block for the context
CloseContextSkipped ==
  /\ pc = "close_context"
  /\ pc' = "close_browser"
  /\ UNCHANGED <<sessVars, cache, now, live, starts, histVars, lastGet,
                 waitVars, sideVars>>

\* variant: browser.close() is called but the handle is not set to null
CloseBrowser_KeepHandle ==
  /\ pc = "close_browser"
  /\ live' = live \ {<<"browser", state.browser>>}
  /\ trace' = IF state.browser # 0 THEN Append(trace, "closeBrowser")
              ELSE trace
  /\ pc' = "close_reset"
  /\ UNCHANGED <<sessVars, cache, now, starts, call, statusTrace, result,
                 prevClose, toolResult, lastGet, waitVars, sideVars>>

ClosePage == CloseStep("close_page", "page", "closePage", "close_context")
CloseContext ==
  CloseStep("close_context", "context", "closeContext", "close_browser")
CloseBrowser ==
  CloseStep("close_browser", "browser", "closeBrowser", "close_reset")

\* variant: the reset leaves state.status as it was
CloseReset_KeepStatus ==
  /\ pc = "close_reset"
  /\ state' = [state EXCEPT !.orgInfo = NullInfo,
                            !.instanceUrl = "null",
                            !.lastActivity = -1]
  /\ urlBuilder' = "null"
  /\ statusTrace' = statusTrace
  /\ IF call.closeRet = "close"
     THEN /\ pc' = "idle"
          /\ result' = Returned(0)
          /\ toolResult' = SuccessResult
     ELSE /\ pc' = IF call.closeRet = "start" THEN "s_begin" ELSE "s_throw"
          /\ UNCHANGED <<result, toolResult>>
  /\ UNCHANGED <<tokenRefreshInterval, cache, now, call, trace, live,
                 starts, prevClose, lastGet, waitVars, sideVars>>

\* the tail of closeSession ("Reset state"); a closeSession that was called
\* by sf_session_close then returns through handleSessionClose
CloseReset ==
  /\ pc = "close_reset"
  /\ state' = [state EXCEPT !.status = "disconnected",
                            !.orgInfo = NullInfo,
                            !.instanceUrl = "null",
                            !.lastActivity = -1]
  /\ urlBuilder' = "null"
  /\ statusTrace' = Append(statusTrace, "disconnected")
  /\ IF call.closeRet = "close"
     THEN /\ pc' = "idle"
          /\ result' = Returned(0)
          /\ toolResult' = SuccessResult
     ELSE /\ pc' = IF call.closeRet = "start" THEN "s_begin" ELSE "s_throw"
          /\ UNCHANGED <<result, toolResult>>
  /\ UNCHANGED <<tokenRefreshInterval, cache, now, call, trace, live,
                 starts, prevClose, lastGet, waitVars, sideVars>>

\* sf_session_close -> handleSessionClose -> closeSession()
HandleSessionClose ==
  /\ pc = "idle"
  /\ BeginCall([NoCall EXCEPT !.op = "close", !.closeRet = "close",
                              !.prior = live,
                              !.wasConnected = state.status = "connected"],
               StopMonitorTrace(<<>>))
  /\ tokenRefreshInterval' = 0
  /\ pc' = "close_page"
  /\ UNCHANGED <<state, urlBuilder, cache, now, live, starts, lastGet,
                 waitVars, sideVars>>

\* -------------------------------------------------------- startSession
\* variant: startSession does not close the running session first
HandleSessionStart_NoClose(alias) ==
  /\ pc = "idle"
  /\ starts < MaxStarts
  /\ starts' = starts + 1
  /\ BeginCall([NoCall EXCEPT !.op = "start", !.alias = alias,
                              !.closeRet = "start", !.prior = live,
                              !.wasConnected = state.status = "connected"],
               <<>>)
  /\ pc' = "s_begin"
  /\ UNCHANGED <<sessVars, cache, now, live, lastGet, waitVars, sideVars>>

\* sf_session_start -> handleSessionStart -> startSession(config); the
\* first statement is `await this.closeSession()`
HandleSessionStart(alias) ==
  /\ pc = "idle"
  /\ starts < MaxStarts
  /\ starts' = starts + 1
  /\ BeginCall([NoCall EXCEPT !.op = "start", !.alias = alias,
                              !.closeRet = "start", !.prior = live,
                              !.wasConnected = state.status = "connected"],
               StopMonitorTrace(<<>>))
  /\ tokenRefreshInterval' = 0
  /\ pc' = "close_page"
  /\ UNCHANGED <<state, urlBuilder, cache, now, live, lastGet,
                 waitVars, sideVars>>

\* the catch block up to its `await this.closeSession()`
StartFails(step, raw, msg) ==
  /\ state' = [state EXCEPT !.status = "error"]
  /\ statusTrace' = Append(statusTrace, "error")
  /\ call' = [call EXCEPT !.err = [step |-> step, msg |-> msg, raw |-> raw],
                          !.closeRet = "catch"]
  /\ trace' = StopMonitorTrace(Append(trace, step))
  /\ tokenRefreshInterval' = 0
  /\ pc' = "close_page"
  /\ UNCHANGED <<result, prevClose, toolResult>>

\* status = 'connecting'; orgAlias = config.orgAlias; then the synchronous
\* head of orgManager.getOrgInfo(alias): the cache lookup
StartConnecting ==
  /\ pc = "s_begin"
  /\ state' = [state EXCEPT !.status = "connecting",
                            !.orgAlias = call.alias]
  /\ statusTrace' = Append(statusTrace, "connecting")
  /\ call' = [call EXCEPT !.ext = ~CacheHit(call.alias, FALSE),
                          !.info = cache[call.alias].orgInfo]
  /\ pc' = "s_orginfo"
  /\ UNCHANGED <<tokenRefreshInterval, urlBuilder, cache, now, trace, live,
                 starts, result, prevClose, toolResult, lastGet,
                 waitVars, sideVars>>

\* getOrgInfo settles: the cached info, or the outcome of `sf org display`
StartOrgInfo ==
  /\ pc = "s_orginfo"
  /\ \E o \in (IF call.ext THEN Outcomes(CliMessages)
                ELSE Outcomes({})) :
       IF o.ok
       THEN LET info == IF call.ext THEN FreshInfo(call.alias, now)
                        ELSE call.info
            IN /\ cache' = IF call.ext THEN CacheSet(cache, call.alias, info)
                           ELSE cache
               /\ state' = [state EXCEPT !.orgInfo = info,
                                         !.instanceUrl = info.instanceUrl]
               /\ urlBuilder' = info.instanceUrl
               /\ trace' = Append(trace, "fetch")
               /\ pc' = "s_frontdoor"
               /\ UNCHANGED <<tokenRefreshInterval, call, statusTrace,
                              result, prevClose, toolResult>>
       ELSE /\ StartFails("fetch", o.raw, AuthRewrite(o.raw))
            /\ UNCHANGED <<urlBuilder, cache>>
  /\ UNCHANGED <<now, live, starts, lastGet, waitVars, sideVars>>

\* orgManager.getFrontdoorUrl(alias) settles (`sf org open --url-only`)
StartFrontdoor ==
  /\ pc = "s_frontdoor"
  /\ \E o \in Outcomes(CliMessages) :
       IF o.ok
       THEN /\ trace' = Append(trace, "frontdoor")
            /\ pc' = "s_launch"
            /\ UNCHANGED <<state, tokenRefreshInterval, call, statusTrace,
                           result, prevClose, toolResult>>
       ELSE StartFails("frontdoor", o.raw, AuthRewrite(o.raw))
  /\ UNCHANGED <<urlBuilder, cache, now, live, starts, lastGet,
                 waitVars, sideVars>>

\* one acquisition `this.state.X = await <launch/newContext/newPage>`
Acquire(here, field, ev, next) ==
  /\ pc = here
  /\ \E o \in Outcomes(BrowserMessages) :
       IF o.ok
       THEN /\ state' = [state EXCEPT ![field] = starts]
            /\ live' = live \cup {<<field, starts>>}
            /\ call' = [call EXCEPT !.acquired = @ \cup {<<field, starts>>}]
            /\ trace' = Append(trace, ev)
            /\ pc' = next
            /\ UNCHANGED <<tokenRefreshInterval, statusTrace, result, prevClose,
                           toolResult>>
       ELSE /\ StartFails(ev, o.raw, o.raw)
            /\ UNCHANGED live
  /\ UNCHANGED <<urlBuilder, cache, now, starts, lastGet, waitVars, sideVars>>

StartLaunch == Acquire("s_launch", "browser", "launch", "s_context")
StartContext == Acquire("s_context", "context", "newContext", "s_page")
StartPage == Acquire("s_page", "page", "newPage", "s_goto")

\* page.goto(frontdoorUrl, ...) settles
StartGoto ==
  /\ pc = "s_goto"
  /\ \E o \in Outcomes(BrowserMessages) :
       IF o.ok
       THEN /\ trace' = Append(trace, "goto")
            /\ pc' = "s_wait"
            /\ UNCHANGED <<state, tokenRefreshInterval, call, statusTrace,
                           result, prevClose, toolResult>>
       ELSE StartFails("goto", o.raw, o.raw)
  /\ UNCHANGED <<urlBuilder, cache, now, live, starts, lastGet,
                 waitVars, sideVars>>

\* waitForLightningReady settles; on success status = 'connected',
\* lastActivity = new Date(), startTokenRefreshMonitoring(), and
\* handleSessionStart returns its success result
StartWait ==
  /\ pc = "s_wait"
  /\ \E o \in Outcomes(BrowserMessages) :
       IF o.ok
       THEN /\ state' = [state EXCEPT !.status = "connected",
                                      !.lastActivity = now]
            /\ statusTrace' = Append(statusTrace, "connected")
            /\ tokenRefreshInterval' = starts
            /\ trace' = Append(trace, "wait")
            /\ result' = Returned(0)
            /\ toolResult' = SuccessResult
            /\ pc' = "idle"
            /\ UNCHANGED <<call, prevClose>>
       ELSE StartFails("wait", o.raw, o.raw)
  /\ UNCHANGED <<urlBuilder, cache, now, live, starts, lastGet,
                 waitVars, sideVars>>

\* variant: the catch block sets status = 'error' after its closeSession
StartThrow_ErrorAfterClose ==
  /\ pc = "s_throw"
  /\ state' = [state EXCEPT !.status = "error"]
  /\ result' = Raised(ClassifyStartError(call.err.msg), call.err.msg,
                      "present")
  /\ toolResult' = SalesforceErrorResult(ClassifyStartError(call.err.msg),
                                         "present")
  /\ pc' = "idle"
  /\ UNCHANGED <<tokenRefreshInterval, urlBuilder, cache, now, call, trace,
                 statusTrace, live, starts, prevClose, lastGet,
                 waitVars, sideVars>>

\* the catch block after its closeSession: throw the classified
\* SalesforceError, which handleSessionStart turns into an error result
StartThrow ==
  /\ pc = "s_throw"
  /\ result' = Raised(ClassifyStartError(call.err.msg), call.err.msg,
                      "present")
  /\ toolResult' = SalesforceErrorResult(ClassifyStartError(call.err.msg),
                                         "present")
  /\ pc' = "idle"
  /\ UNCHANGED <<sessVars, cache, now, call, trace, statusTrace, live,
                 starts, prevClose, lastGet, waitVars, sideVars>>

\* ------------------------------------------------------- ensureSession
\* variant: ensureSession without the page.evaluate probe
EnsureSession_NoProbe(probe) ==
  IF state.status # "connected" \/ state.page = 0
  THEN Raised("SESSION_NOT_STARTED", {}, "present")
  ELSE Returned(state.page)

\* ensureSession(): the status/page guard, then the page.evaluate probe
EnsureSession(probe) ==
  IF state.status # "connected" \/ state.page = 0
  THEN Raised("SESSION_NOT_STARTED", {}, "present")
  ELSE IF probe = "fail"
       THEN Raised("SESSION_EXPIRED", {}, "present")
       ELSE Returned(state.page)

\* variant: lastActivity is stamped before the guard and the probe
AfterEnsure_StampFirst(st, ensured) == [st EXCEPT !.lastActivity = now]

\* the session state ensureSession leaves: `this.state.lastActivity = new
\* Date()` is its last statement before the return, both throws precede it
AfterEnsure(st, ensured) ==
  IF ensured.kind = "ok" THEN [st EXCEPT !.lastActivity = now] ELSE st

\* getUrlBuilder(): throws SESSION_NOT_STARTED without a builder
GetUrlBuilderThrows == urlBuilder = "null" \/ state.instanceUrl = "null"

\* ------------------------------------------------------- tool handlers
\* Handlers that need a page, one entry per shape of try/catch:
\*   navigation  handleNavigate*      -> handleNavigationError
\*   interaction handleClick .. handleWaitForElement
\*                                    -> handleInteractionError
\*   record      handleRecord*        -> handleRecordError
\*   setup       handleSetup*         -> handleSetupError
\*   capture     handleGetPageText, handleGetElementText,
\*               handleGetFieldValue, handleGetRecordDetails,
\*               handleGetCurrentUrl, handleWaitForNavigation
\*                                    -> handleCaptureError
\*   screenshot  handleScreenshot     -> handleCaptureError, image result
\*   toast       handleGetToastMessage   (own catch)
\*   evaluate    handleEvaluateJs        (own catch)
\*   spinner     handleWaitForSpinner    (own catch)
PageTools == {"navigation", "interaction", "record", "setup", "capture",
              "screenshot", "toast", "evaluate", "spinner"}

\* families in which some handlers call getUrlBuilder() before anything
\* that reaches ensureSession (handleNavigateHome, handleRecordNew,
\* handleSetupCreateUser, ...)
BuilderFirstTools == {"navigation", "record", "setup"}

\* messages a failed browser action or wait carries, by the substrings
\* the error helpers test
ActionMessages == {{"Timeout"}, {"waiting"}, {}}

ImageResult ==
  [kind |-> "result", content |-> <<ImageContent>>, isError |-> "absent",
   success |-> "absent", code |-> "none", suggestion |-> "absent"]

\* a failure outcome returned without the error flag (handleGetToastMessage)
SoftFailureResult ==
  [kind |-> "result", content |-> <<TextContent>>, isError |-> "absent",
   success |-> "false", code |-> "none", suggestion |-> "absent"]

\* JSON {success:false, ...} with isError: true and no error code
FlaggedFailureResult ==
  [kind |-> "result", content |-> <<TextContent>>, isError |-> "true",
   success |-> "false", code |-> "none", suggestion |-> "absent"]

\* the value a handler's try block returns
ToolSuccess(tool) == IF tool = "screenshot" THEN ImageResult ELSE SuccessResult

\* variant: the error helper rethrows what it cannot classify
ToolCatch_Rethrow(tool, sfCode, msg, suggestion) ==
  CASE tool = "toast" -> SoftFailureResult
    [] tool \in {"evaluate", "spinner"} -> FlaggedFailureResult
    [] OTHER ->
         IF sfCode # "none" THEN SalesforceErrorResult(sfCode, suggestion)
         ELSE IF tool = "navigation" /\ "Timeout" \in msg
              THEN SalesforceErrorResult("NAVIGATION_TIMEOUT", "present")
         ELSE IF tool = "interaction"
                 /\ ("Timeout" \in msg \/ "waiting" \in msg)
              THEN SalesforceErrorResult("ELEMENT_NOT_FOUND", "present")
         ELSE Escaped

\* the value a handler's catch block returns for a caught error; sfCode is
\* the code of a SalesforceError, "none" for any other Error
ToolCatch(tool, sfCode, msg, suggestion) ==
  CASE tool = "toast" -> SoftFailureResult
    [] tool \in {"evaluate", "spinner"} -> FlaggedFailureResult
    [] OTHER ->
         IF sfCode # "none" THEN SalesforceErrorResult(sfCode, suggestion)
         ELSE IF tool = "navigation" /\ "Timeout" \in msg
              THEN SalesforceErrorResult("NAVIGATION_TIMEOUT", "present")
         ELSE IF tool = "interaction"
                 /\ ("Timeout" \in msg \/ "waiting" \in msg)
              THEN SalesforceErrorResult("ELEMENT_NOT_FOUND", "present")
         ELSE PlainErrorResult

\* one page tool: try { [getUrlBuilder();] ensureSession(); <browser
\* actions and waits>; return success } catch (error) { return ... }
\* The probe is drawn only when ensureSession reaches it, the outcome of
\* the browser action only when ensureSession returned the page.
HandlePageTool(tool) ==
  /\ pc = "idle"
  /\ \E viaBuilder \in (IF tool \in BuilderFirstTools /\ GetUrlBuilderThrows
                        THEN BOOLEAN ELSE {FALSE}),
        probe \in (IF EnsureSession("ok").kind = "ok" THEN {"ok", "fail"}
                   ELSE {"none"}) :
     \E o \in (IF EnsureSession(probe).kind = "ok"
               THEN Outcomes(ActionMessages) ELSE Outcomes({})) :
       LET builderThrows == viaBuilder /\ GetUrlBuilderThrows
           ensured == EnsureSession(probe)
           ok == o.ok
           msg == o.raw
           c == [NoCall EXCEPT !.op = "tool", !.tool = tool,
                               !.prior = live,
                               !.wasConnected = state.status = "connected"]
       IN IF builderThrows
          THEN /\ call' = [c EXCEPT !.caught = TRUE, !.viaBuilder = TRUE]
               /\ prevClose' = ClosedBefore
               /\ statusTrace' = <<>>
               /\ trace' = <<>>
               /\ result' = NoResult
               /\ toolResult' = ToolCatch(tool, "SESSION_NOT_STARTED", {},
                                           "absent")
               /\ UNCHANGED state
          ELSE /\ call' = [c EXCEPT !.probe = probe,
                                    !.acted = ensured.kind = "ok",
                                    !.caught = ensured.kind # "ok" \/ ~ok]
               /\ prevClose' = ClosedBefore
               /\ statusTrace' = <<>>
               /\ result' = ensured
               /\ state' = AfterEnsure(state, ensured)
               /\ IF ensured.kind = "ok"
                  THEN /\ trace' = <<"probe", "action">>
                       /\ toolResult' = IF ok THEN ToolSuccess(tool)
                                        ELSE ToolCatch(tool, "none", msg,
                                                       "absent")
                  ELSE /\ trace' = IF ensured.code = "SESSION_EXPIRED"
                                   THEN <<"probe">> ELSE <<>>
                       /\ toolResult' = ToolCatch(tool, ensured.code, {},
                                                   ensured.suggestion)
  /\ pc' = "idle"
  /\ UNCHANGED <<tokenRefreshInterval, urlBuilder, cache, now, live, starts,
                 lastGet, waitVars, sideVars>>

\* sf_session_status -> handleSessionStatus: reads getStatus(), no try
StatusResult ==
  [kind |-> "result", content |-> <<TextContent>>, isError |-> "absent",
   success |-> "absent", code |-> "none", suggestion |-> "absent"]

HandleSessionStatus ==
  /\ pc = "idle"
  /\ call' = [NoCall EXCEPT !.op = "status", !.prior = live,
                            !.wasConnected = state.status = "connected"]
  /\ prevClose' = ClosedBefore
  /\ trace' = <<>>
  /\ statusTrace' = <<>>
  /\ result' = Returned(0)
  /\ toolResult' = StatusResult
  /\ UNCHANGED <<sessVars, cache, now, pc, live, starts, lastGet,
                 waitVars, sideVars>>

\* sf_list_orgs -> handleListOrgs -> orgManager.listOrgs() (`sf org list`)
HandleListOrgs ==
  /\ pc = "idle"
  /\ \E ok \in BOOLEAN :
       /\ result' = IF ok THEN Returned(0) ELSE Raised("Error", {}, "absent")
       /\ toolResult' = IF ok THEN SuccessResult ELSE PlainErrorResult
       /\ call' = [NoCall EXCEPT !.op = "listOrgs", !.prior = live,
                                 !.wasConnected = state.status = "connected",
                                 !.caught = ~ok]
  /\ prevClose' = ClosedBefore
  /\ trace' = <<"listOrgs">>
  /\ statusTrace' = <<>>
  /\ UNCHANGED <<sessVars, cache, now, pc, live, starts, lastGet,
                 waitVars, sideVars>>

\* variant: an entry that failed the expiry test is deleted from the map
FetchThrew_Evicts(c, alias) == [c EXCEPT ![alias] = NoEntry]

\* `await this.auth.getOrgInfo(orgAlias)` rejects: getOrgInfo is left
\* before this.cache.set, and nothing else touches the map
FetchThrew(c, alias) == c

\* OrgManager.getOrgInfo(alias, forceRefresh) as one step: the effect on
\* the cache and the record of the decision; ok is the outcome of the
\* external `sf org display`, consulted only when it is invoked
GetOrgInfo(alias, forceRefresh, ok) ==
  IF CacheHit(alias, forceRefresh)
  THEN cache' = cache
  ELSE IF ok
       THEN cache' = CacheSet(cache, alias, FreshInfo(alias, now))
       ELSE cache' = FetchThrew(cache, alias)

\* what that call hands back: [invoked, info, failed]
GetOrgInfoReturn(alias, forceRefresh, ok) ==
  IF CacheHit(alias, forceRefresh)
  THEN GetRecord(alias, forceRefresh, FALSE, cache[alias].orgInfo, FALSE)
  ELSE IF ok
       THEN GetRecord(alias, forceRefresh, TRUE, FreshInfo(alias, now), FALSE)
       ELSE GetRecord(alias, forceRefresh, TRUE, NullInfo, TRUE)

\* sf_session_refresh -> handleSessionRefresh -> refreshToken().  failAt
\* names the first collaborator call that fails; loggedIn is what the
\* `div.desktop, one-app` visibility probe answers.
RefreshSteps == <<"refresh", "orginfo", "visible", "frontdoor", "goto", "wait">>

\* variant: the page is sent to the frontdoor URL whatever it shows
Reauth_Always(page, loggedIn) == page # 0

\* `if (this.state.page) { ... if (!isLoggedIn) {`
Reauth(page, loggedIn) == page # 0 /\ ~loggedIn

HandleSessionRefresh ==
  /\ pc = "idle"
  /\ prevClose' = ClosedBefore
  /\ statusTrace' = <<>>
  /\ IF state.orgAlias = "null"
     THEN /\ call' = [NoCall EXCEPT !.op = "refresh", !.prior = live,
                                    !.wasConnected =
                                      state.status = "connected"]
          /\ result' = Raised("SESSION_NOT_STARTED", {}, "absent")
          /\ toolResult' = SalesforceErrorResult("SESSION_NOT_STARTED",
                                                 "absent")
          /\ trace' = <<>>
          /\ UNCHANGED <<state, cache>>
     ELSE \E failAt \in {"none", "refresh", "orginfo", "frontdoor", "goto",
                         "wait"},
             loggedIn \in BOOLEAN :
            LET reauth == Reauth(state.page, loggedIn)
                \* the collaborator calls the method reaches, in order
                reached ==
                  IF failAt = "refresh" THEN 1
                  ELSE IF failAt = "orginfo" THEN 2
                  ELSE IF state.page = 0 THEN 2
                  ELSE IF ~reauth THEN 3
                  ELSE IF failAt = "frontdoor" THEN 4
                  ELSE IF failAt = "goto" THEN 5
                  ELSE 6
                failed ==
                  \/ failAt \in {"refresh", "orginfo"}
                  \/ reauth /\ failAt \in {"frontdoor", "goto", "wait"}
            IN /\ call' = [NoCall EXCEPT
                              !.op = "refresh", !.prior = live,
                              !.wasConnected = state.status = "connected",
                              !.loggedIn = IF reached < 3 THEN "none"
                                           ELSE IF loggedIn THEN "yes"
                                           ELSE "no"]
               /\ trace' = SubSeq(RefreshSteps, 1, reached)
               /\ GetOrgInfo(state.orgAlias, TRUE, failAt # "refresh")
               /\ state' = IF failAt \in {"refresh", "orginfo"} THEN state
                           ELSE [state EXCEPT !.orgInfo =
                                   FreshInfo(state.orgAlias, now)]
               /\ result' = IF failed
                            THEN Raised("SESSION_EXPIRED", {}, "present")
                            ELSE Returned(0)
               /\ toolResult' = IF failed
                                THEN SalesforceErrorResult("SESSION_EXPIRED",
                                                           "present")
                                ELSE SuccessResult
  /\ UNCHANGED <<tokenRefreshInterval, urlBuilder, now, pc, live, starts,
                 lastGet, waitVars, sideVars>>

\* variant: a failed background refetch marks the session as failed
MonitorCatch_Escalates(st) == [st EXCEPT !.status = "error"]

\* the catch of the monitor callback: console.error(...) and nothing else
MonitorCatch(st) == st

\* the setInterval callback of startTokenRefreshMonitoring: a forced
\* getOrgInfo while connected; a failure is logged
MonitorTick ==
  /\ tokenRefreshInterval # 0
  /\ IF state.status = "connected"
     THEN \E ok \in BOOLEAN :
            /\ GetOrgInfo(state.orgAlias, TRUE, ok)
            /\ state' = IF ok THEN state ELSE MonitorCatch(state)
     ELSE UNCHANGED <<cache, state>>
  /\ UNCHANGED <<tokenRefreshInterval, urlBuilder, now, pc, live, starts,
                 histVars, lastGet, waitVars, sideVars>>

\* the wall clock advances
Tick ==
  /\ now < MaxTime
  /\ now' = now + 1
  /\ UNCHANGED <<sessVars, cache, pc, live, starts, histVars, lastGet,
                 waitVars, sideVars>>

Next ==
  \/ \E alias \in Aliases : HandleSessionStart(alias)
  \/ StartConnecting
  \/ StartOrgInfo
  \/ StartFrontdoor
  \/ StartLaunch
  \/ StartContext
  \/ StartPage
  \/ StartGoto
  \/ StartWait
  \/ StartThrow
  \/ HandleSessionClose
  \/ ClosePage
  \/ CloseContext
  \/ CloseBrowser
  \/ CloseReset
  \/ \E tool \in PageTools : HandlePageTool(tool)
  \/ HandleSessionStatus
  \/ HandleListOrgs
  \/ HandleSessionRefresh
  \/ MonitorTick
  \/ Tick

Spec == Init /\ [][Next]_vars

\* ------------------------------------------- OrgManager used directly
\* orgManager.getOrgInfo(alias, forceRefresh) called on its own
OrgGetOrgInfo(alias, forceRefresh) ==
  /\ \E ok \in BOOLEAN :
       /\ GetOrgInfo(alias, forceRefresh, ok)
       /\ lastGet' = GetOrgInfoReturn(alias, forceRefresh, ok)
  /\ UNCHANGED <<sessVars, now, pc, live, starts, histVars, waitVars, sideVars>>

\* orgManager.clearCache()
OrgClearCache ==
  /\ cache' = [a \in Aliases |-> NoEntry]
  /\ lastGet' = [NoGet EXCEPT !.afterClear = TRUE]
  /\ UNCHANGED <<sessVars, now, pc, live, starts, histVars, waitVars, sideVars>>

NextCache ==
  \/ \E alias \in Aliases, forceRefresh \in BOOLEAN :
       OrgGetOrgInfo(alias, forceRefresh)
  \/ OrgClearCache
  \/ Tick

SpecCache == Init /\ [][NextCache]_vars

\* ------------------------------------------- SalesforceWaitStrategies
WaitKinds ==
  {"waitForNoSpinners", "waitForNoStencils", "waitForLightningReady",
   "waitForFormReady", "waitForRecordPage", "waitForListView",
   "waitForSetupPage", "waitForModal", "waitForToast"}

BestEffortWaits == {"waitForNoSpinners", "waitForNoStencils"}

\* the awaited steps of each wait, in code order
Program(kind) ==
  CASE kind = "waitForNoSpinners" -> <<"spinners">>
    [] kind = "waitForNoStencils" -> <<"stencils">>
    [] kind = "waitForLightningReady" ->
         <<"url", "stable", "dom", "shell", "spinners">>
    [] kind \in {"waitForFormReady", "waitForRecordPage", "waitForListView"}
         -> <<"marker", "spinners", "stencils">>
    [] kind \in {"waitForSetupPage", "waitForModal"}
         -> <<"marker", "spinners">>
    [] kind = "waitForToast" -> <<"marker", "classify">>

\* the styles a page can show for the spinner (stencil) selector while a
\* wait of this kind runs: every combination for the wait that is about
\* them, none or one visible element elsewhere
StyleSets(kind, own) ==
  IF kind = own THEN SUBSET Styles ELSE {{}, {"shown"}}

\* the page states a wait of this kind can meet; what the wait never
\* looks at stays blank
PagesFor(kind) ==
  LET prog == Program(kind)
      uses(st) == \E i \in DOMAIN prog : prog[i] = st
      only(st, values, blank) == IF uses(st) THEN values ELSE {blank}
  IN [url : only("url", {"auth", "app", "app2"}, BlankPage.url),
      dom : only("dom", BOOLEAN, BlankPage.dom),
      shell : only("shell", {"absent", "hidden", "shown"}, BlankPage.shell),
      marker : only("marker", BOOLEAN, BlankPage.marker),
      spinners : only("spinners", StyleSets(kind, "waitForNoSpinners"),
                      BlankPage.spinners),
      stencils : only("stencils", StyleSets(kind, "waitForNoStencils"),
                      BlankPage.stencils),
      toast : only("classify", SUBSET ToastMarkers, BlankPage.toast)]

\* variant: any matched element counts as active, whatever its style
NoneActive_PresenceOnly(styles) == styles = {}

\* `els.length === 0 || every(el => style.display === 'none' ||
\* style.visibility === 'hidden')`
NoneActive(styles) ==
  \/ styles = {}
  \/ \A st \in styles : st \in {"display_none", "visibility_hidden"}

\* the waitForURL predicate: not an auth/redirect URL and has '/lightning/'
UrlLeftAuth(p) == p.url # "auth"

\* the container poll: a container is found whose display is not none and
\* whose visibility is not hidden
ContainerFound(p) == p.shell = "shown"

\* what the awaited step is waiting for
StageCond(stage, p) ==
  CASE stage = "url" -> UrlLeftAuth(p)
    [] stage = "dom" -> p.dom
    [] stage = "marker" -> p.marker
    [] stage = "shell" -> ContainerFound(p)
    [] stage = "spinners" -> NoneActive(p.spinners)
    [] stage = "stencils" -> NoneActive(p.stencils)
    [] OTHER -> TRUE

\* styles that hide an element
HiddenStyles == {"display_none", "visibility_hidden"}

\* the condition a wait is named after, as the page has it: no spinner
\* (stencil) that is not hidden, a shown shell container, the marker
Principal(kind, p) ==
  CASE kind = "waitForNoSpinners" -> p.spinners \subseteq HiddenStyles
    [] kind = "waitForNoStencils" -> p.stencils \subseteq HiddenStyles
    [] kind = "waitForLightningReady" -> p.shell = "shown"
    [] OTHER -> p.marker

Max(a, b) == IF a >= b THEN a ELSE b
Min(a, b) == IF a <= b THEN a ELSE b

\* const getRemaining = () => Math.max(timeout - (Date.now() - startTime), 1000)
GetRemaining(timeout, elapsed) == Max(timeout - elapsed, MIN_REMAINING)

\* `timeout / 2` as the bound of a polling loop: with the clock on whole
\* units, elapsed < timeout / 2 iff elapsed < Half(timeout)
Half(timeout) == (timeout + 1) \div 2

\* the timeout an awaited step is given; elapsed is Date.now() - startTime
\* of the composing wait at the moment the step is entered
StageTimeout(kind, stage, timeout, elapsed) ==
  CASE kind = "waitForLightningReady" ->
         (IF stage = "spinners"
          THEN Min(GetRemaining(timeout, elapsed), SPINNER_CAP)
          ELSE IF stage \in {"url", "dom"}
               THEN GetRemaining(timeout, elapsed)
               ELSE timeout)
    [] kind = "waitForFormReady" ->
         (IF stage = "stencils"
          THEN Min(GetRemaining(timeout, elapsed), STENCIL_CAP)
          ELSE GetRemaining(timeout, elapsed))
    [] kind \in {"waitForRecordPage", "waitForListView"} ->
         (IF stage = "stencils" THEN Half(timeout) ELSE timeout)
    [] kind = "waitForModal" ->
         (IF stage = "spinners" THEN Half(timeout) ELSE timeout)
    [] OTHER -> timeout

\* variant: error checked before success
ClassifyToast_ErrorFirst(markers) ==
  IF "error" \in markers THEN "error"
  ELSE IF "success" \in markers THEN "success"
  ELSE IF "warning" \in markers THEN "warning"
  ELSE "info"

\* waitForToast: isSuccess / isError / isWarning, first match wins
ClassifyToast(markers) ==
  IF "success" \in markers THEN "success"
  ELSE IF "error" \in markers THEN "error"
  ELSE IF "warning" \in markers THEN "warning"
  ELSE "info"

\* the step at position i of the wait is entered at time t on page p
EnterStage(c, i, t, p) ==
  LET stage == Program(c.kind)[i]
      limit == StageTimeout(c.kind, stage, c.timeout, t)
  IN [c EXCEPT !.stage = i,
               !.start = IF stage \in {"stable", "shell"} THEN 0 ELSE t,
               !.limit = limit,
               !.probes = 0,
               !.stableCount = 0,
               !.lastUrl = IF stage = "stable" THEN p.url ELSE "none",
               !.regrant = @ \/ (i > 1 /\ stage \notin {"stable", "shell",
                                                          "classify"}
                                 /\ limit > Max(c.timeout - t, 0))]

NewWait(kind, timeout, p) ==
  EnterStage([NoWait EXCEPT !.kind = kind, !.timeout = timeout,
                            !.first = Principal(kind, p),
                            !.seen = Principal(kind, p)],
             1, 0, p)

CurrentStage == Program(wcall.kind)[wcall.stage]

\* a wait is called: waitForX(timeout) on a page showing p
BeginWait(kind, timeout, p) ==
  /\ wpc = "idle"
  /\ pageState' = p
  /\ wclock' = 0
  /\ wcall' = NewWait(kind, timeout, p)
  /\ wpc' = Program(kind)[1]
  /\ UNCHANGED <<coreVars, sideVars>>

\* the awaited step is over: the next one is entered, or the wait returns
Advance(c) ==
  /\ IF c.stage = Len(Program(c.kind))
     THEN /\ wcall' = [c EXCEPT !.outcome = "returned"]
          /\ wpc' = "done"
     ELSE /\ wcall' = EnterStage(c, c.stage + 1, wclock, pageState)
          /\ wpc' = Program(c.kind)[c.stage + 1]
  /\ UNCHANGED <<pageState, wclock>>

\* the wait rejects out of the current step
Reject(c) ==
  /\ wcall' = [c EXCEPT !.outcome = "raised", !.raisedIn = CurrentStage]
  /\ wpc' = "done"
  /\ UNCHANGED <<pageState, wclock>>

\* variant: a sleep during which the clock does not move
SleepAdvance_Frozen(d) == 0

\* how far Date.now() moves over page.waitForTimeout(d)
SleepAdvance(d) == d

\* variant: a changed URL leaves the count where it is
NextStableCount_NoReset(stableCount, same) ==
  IF same THEN stableCount + 1 ELSE stableCount

\* `if (currentUrl === lastUrl) stableCount++; else stableCount = 0`
NextStableCount(stableCount, same) ==
  IF same THEN stableCount + 1 ELSE 0

\* the task is suspended for d units; the page moves on meanwhile
Sleep(c, d) ==
  /\ wclock' = wclock + SleepAdvance(d)
  /\ \E p \in PagesFor(c.kind) :
       /\ pageState' = p
       /\ wcall' =
            [c EXCEPT !.slept = TRUE,
                      !.steady = @ /\ p = pageState,
                      !.seen = @ \/ Principal(c.kind, p),
                      !.stableCount =
                        IF CurrentStage = "stable"
                        THEN NextStableCount(@, p.url = c.lastUrl)
                        ELSE @,
                      !.lastUrl = IF CurrentStage = "stable" THEN p.url ELSE @]
  /\ UNCHANGED wpc

\* variant: the engine gives up one unit before its timeout
EngineExpired_Early == wclock - wcall.start >= wcall.limit - 1

\* the engine's own wait (waitForURL, waitForLoadState, waitForSelector)
\* has used up the timeout it was given
EngineExpired == wclock - wcall.start >= wcall.limit

\* page.waitForURL / waitForLoadState / waitForSelector with {timeout}:
\* resolves once the condition holds, rejects when the timeout is used up
EngineWait ==
  /\ wpc \in {"url", "dom", "marker"}
  /\ IF StageCond(wpc, pageState) THEN Advance(wcall)
     ELSE IF EngineExpired THEN Reject(wcall)
     ELSE Sleep(wcall, POLL_INTERVAL)
  /\ UNCHANGED <<coreVars, sideVars>>

\* variant: a best-effort wait that throws when its time is up
BestEffortSilent_Throws == FALSE

\* "Don't throw on spinner timeout - page might still be usable"
BestEffortSilent == TRUE

\* waitForNoSpinners / waitForNoStencils: while (elapsed < timeout)
\* { probe; if (ok) return; await waitForTimeout(pollInterval) }
PollBestEffort ==
  /\ wpc \in {"spinners", "stencils"}
  /\ IF wclock - wcall.start < wcall.limit
     THEN LET c == [wcall EXCEPT !.probes = @ + 1]
          IN IF StageCond(wpc, pageState) THEN Advance(c)
             ELSE Sleep(c, POLL_INTERVAL)
     ELSE IF BestEffortSilent THEN Advance(wcall) ELSE Reject(wcall)
  /\ UNCHANGED <<coreVars, sideVars>>

\* variant: the debounce loop throws when the URL did not settle in time
DebounceSilent_Throws == FALSE

\* the debounce loop just ends when the time is up
DebounceSilent == TRUE

\* while (stableCount < 3 && elapsed < timeout)
\* { await waitForTimeout(500); compare page.url() with lastUrl }
UrlStable ==
  /\ wpc = "stable"
  /\ IF wcall.stableCount < STABLE_SAMPLES /\ wclock < wcall.timeout
     THEN Sleep(wcall, URL_SAMPLE)
     ELSE IF wcall.stableCount < STABLE_SAMPLES /\ ~DebounceSilent
          THEN Reject(wcall)
          ELSE Advance(wcall)
  /\ UNCHANGED <<coreVars, sideVars>>

\* while (!containerFound && elapsed < timeout) { probe; sleep };
\* if (!containerFound) throw new Error('Timeout waiting for ...')
ShellPoll ==
  /\ wpc = "shell"
  /\ IF wclock < wcall.timeout
     THEN LET c == [wcall EXCEPT !.probes = @ + 1]
          IN IF ContainerFound(pageState) THEN Advance(c)
             ELSE Sleep(c, POLL_INTERVAL)
     ELSE Reject(wcall)
  /\ UNCHANGED <<coreVars, sideVars>>

\* waitForToast after the container is visible: classify and return
ToastClassify ==
  /\ wpc = "classify"
  /\ Advance([wcall EXCEPT !.toastType = ClassifyToast(pageState.toast)])
  /\ UNCHANGED <<coreVars, sideVars>>

\* the promise of the wait has settled and its caller goes on: the locals
\* of the call are gone, the class keeps nothing but the page handle
WaitReturn ==
  /\ wpc = "done"
  /\ wpc' = "idle"
  /\ wcall' = NoWait
  /\ wclock' = 0
  /\ pageState' = BlankPage
  /\ UNCHANGED <<coreVars, sideVars>>

WaitStep ==
  \/ EngineWait
  \/ PollBestEffort
  \/ UrlStable
  \/ ShellPoll
  \/ ToastClassify

\* timeouts the waits are called with; 0 only for the polling waits, whose
\* loops give it a meaning of their own
Timeouts(kind) ==
  IF kind \in BestEffortWaits THEN 0..MaxTimeout ELSE 1..MaxTimeout

NextWait ==
  \/ \E kind \in WaitKinds :
       \E timeout \in Timeouts(kind), p \in PagesFor(kind) :
         BeginWait(kind, timeout, p)
  \/ EngineWait
  \/ PollBestEffort
  \/ UrlStable
  \/ ShellPoll
  \/ ToastClassify
  \/ WaitReturn

SpecWait == Init /\ [][NextWait]_vars

\* the event loop resumes a suspended wait when its timer or probe settles
SpecWaitLive == SpecWait /\ WF_vars(WaitStep)

\* ---- smartWait
\* the substrings of page.url() that smartWait tests with includes()
UrlParts ==
  {"/lightning/r/", "/edit", "/lightning/o/", "/new", "/lightning/setup/"}

\* variant: the object branch does not look for '/new'
SmartWaitTarget_NoNew(url) ==
  IF "/lightning/r/" \in url
  THEN (IF "/edit" \in url THEN "waitForFormReady" ELSE "waitForRecordPage")
  ELSE IF "/lightning/o/" \in url THEN "waitForListView"
  ELSE IF "/lightning/setup/" \in url THEN "waitForSetupPage"
  ELSE "waitForLightningReady"

\* the if / else-if chain of smartWait
SmartWaitTarget(url) ==
  IF "/lightning/r/" \in url
  THEN (IF "/edit" \in url THEN "waitForFormReady" ELSE "waitForRecordPage")
  ELSE IF "/lightning/o/" \in url /\ "/new" \in url THEN "waitForFormReady"
  ELSE IF "/lightning/o/" \in url THEN "waitForListView"
  ELSE IF "/lightning/setup/" \in url THEN "waitForSetupPage"
  ELSE "waitForLightningReady"

\* smartWait(timeout) is called on a page whose URL has the given parts
InitSmartWait ==
  /\ InitCore
  /\ pageState = BlankPage
  /\ wclock = 0
  /\ wpc = "smartWait"
  /\ \E url \in SUBSET UrlParts, timeout \in 1..MaxTimeout :
       wcall = [NoWait EXCEPT !.url = url, !.timeout = timeout]
  /\ InitUi

\* smartWait: `await this.waitForX(timeout)` of the branch taken
SmartWait ==
  /\ wpc = "smartWait"
  /\ wcall' = [wcall EXCEPT !.kind = SmartWaitTarget(wcall.url),
                            !.invoked = Append(@, SmartWaitTarget(wcall.url))]
  /\ wpc' = "dispatched"
  /\ UNCHANGED <<pageState, wclock>>
  /\ UNCHANGED <<coreVars, sideVars>>

SpecSmartWait == InitSmartWait /\ [][SmartWait]_vars

\* ------------------------------------------------ SalesforceUIPatterns
\* one completed page action: locator.click / fill / isChecked, a wait of
\* SalesforceWaitStrategies, or page.waitForTimeout
E(act, target) == [act |-> act, target |-> target, index |-> -1]
EI(act, target, i) == [act |-> act, target |-> target, index |-> i]

\* the entries of a log that are clicks on `target`
ClicksOn(log, target) ==
  SelectSeq(log, LAMBDA e : e.act = "click" /\ e.target = target)

\* position of the awaited step that rejects, 0 when none of `names` does
Pos(names, fail) ==
  IF \E i \in 1..Len(names) : names[i] = fail
  THEN CHOOSE i \in 1..Len(names) : names[i] = fail
  ELSE 0

Ran(log, ret) == [log |-> log, raised |-> "none", ret |-> ret]
Threw(log, err) == [log |-> log, raised |-> err, ret |-> NoRet]
Void == [NoRet EXCEPT !.returned = TRUE]

\* ---- selectLookupValue
\* selectIndex is z.number().optional(): any number passes the schema
Indexes == (0 - 1)..MaxOptions

\* `if (options.length > selectIndex) ... else if (options.length > 0) ...
\*  else throw`: the element of `options` the code indexes, -2 for throw
LookupChoice(n, selectIndex) ==
  IF n > selectIndex THEN selectIndex
  ELSE IF n > 0 THEN 0
  ELSE 0 - 2

LookupSteps == <<"lookupField.click", "searchInput.fill",
                 "waitForLookupResults">>

\* options[i] of an array of n locators is undefined outside 0..n-1, and
\* `undefined.click()` throws a TypeError
SelectLookupValueRun(n, selectIndex, fail) ==
  LET head == <<E("click", "lookupField"), E("fill", "searchInput"),
                E("wait", "lookupResults")>>
      k == Pos(LookupSteps, fail)
      i == LookupChoice(n, selectIndex)
  IN IF k > 0 THEN Threw(SubSeq(head, 1, k - 1), "action")
     ELSE IF i = 0 - 2 THEN Threw(head, "NoLookupOptions")
     ELSE IF i \notin 0..(n - 1) THEN Threw(head, "TypeError")
     ELSE IF fail = "option.click" THEN Threw(head, "action")
     ELSE Ran(head \o <<EI("click", "option", i), E("sleep", "300")>>, Void)

\* a pattern call settles: bookkeeping shared by the pattern actions
UiSettleTool(op, input, run, prev, tool) ==
  uiCall' = [op |-> op, input |-> input, log |-> run.log,
             raised |-> run.raised, ret |-> run.ret, tool |-> tool,
             before |-> uiPage.checked, prev |-> prev]

UiSettle(op, input, run, prev) ==
  UiSettleTool(op, input, run, prev, NoToolResult)

SelectLookupValue ==
  /\ uiCall.op = "none"
  /\ \E n \in 0..MaxOptions, selectIndex \in Indexes,
        fail \in {"none", "option.click"} \cup
                 {LookupSteps[i] : i \in 1..Len(LookupSteps)} :
       UiSettle("selectLookupValue",
                [NoInput EXCEPT !.n = n, !.selectIndex = selectIndex,
                                !.fail = fail],
                SelectLookupValueRun(n, selectIndex, fail), NoPrev)
  /\ UNCHANGED <<coreVars, waitVars, uiPage, urlCall, proc, tasks>>

\* ---- setCheckbox
\* variant: the checkbox is clicked whatever it shows
CheckboxNeedsClick_Always(isChecked, checked) == TRUE

\* `if (isChecked !== checked)`
CheckboxNeedsClick(isChecked, checked) == isChecked # checked

SetCheckboxRun(isChecked, checked, fail) ==
  IF fail = "isChecked" THEN Threw(<<>>, "action")
  ELSE IF ~CheckboxNeedsClick(isChecked, checked)
       THEN Ran(<<E("read", "checkbox")>>, Void)
  ELSE IF fail = "checkbox.click"
       THEN Threw(<<E("read", "checkbox")>>, "action")
  ELSE Ran(<<E("read", "checkbox"), E("click", "checkbox")>>, Void)

\* a completed click on a checkbox input toggles it
SetCheckbox ==
  /\ uiCall.op = "none"
  /\ \E checked \in BOOLEAN,
        fail \in {"none", "isChecked", "checkbox.click"} :
       LET run == SetCheckboxRun(uiPage.checked, checked, fail)
       IN /\ UiSettle("setCheckbox",
                      [NoInput EXCEPT !.checked = checked, !.fail = fail],
                      run, uiCall.prev)
          /\ uiPage' = IF Len(ClicksOn(run.log, "checkbox")) = 1
                       THEN [uiPage EXCEPT !.checked = ~@]
                       ELSE uiPage
  /\ UNCHANGED <<coreVars, waitVars, urlCall, proc, tasks>>

\* ---- saveRecord and sf_record_save
ToastTypes == {"success", "error", "warning", "info"}

\* how waitForToast settles for the caller: the classified type, or the
\* rejection of its waitForSelector
ToastOutcomes == ToastTypes \cup {"timeout"}

Payload(success, message) ==
  [returned |-> TRUE, success |-> IF success THEN "true" ELSE "false",
   message |-> message]

\* the catch of saveRecord: `url.includes('/view')`
SaveFallback(viewUrl) ==
  IF viewUrl THEN Payload(TRUE, "Record saved successfully")
  ELSE Payload(FALSE,
               "Save operation completed but could not verify result")

SaveRecordRun(fail, toast, viewUrl) ==
  IF fail = "save.click" THEN Threw(<<>>, "action")
  ELSE IF toast # "timeout"
       THEN Ran(<<E("click", "saveButton"), E("wait", "toast")>>,
                Payload(toast = "success", "toast"))
  ELSE Ran(<<E("click", "saveButton")>>, SaveFallback(viewUrl))

\* { content: [...{success, message, ...}], isError: <boolean> }
OutcomeResult(success) ==
  [kind |-> "result", content |-> <<TextContent>>,
   isError |-> IF success = "true" THEN "false" ELSE "true",
   success |-> success, code |-> "none", suggestion |-> "absent"]

Optional == {"absent", "true", "false"}

\* handleRecordSave: ensureSession, saveRecord, then unless waitForSave is
\* false getCurrentUrl (ensureSession again) and the outcome
HandleRecordSave ==
  /\ uiCall.op = "none"
  /\ \E waitForSave \in Optional, probe \in {"ok", "fail"},
        fail \in {"none", "save.click"}, toast \in ToastOutcomes,
        viewUrl \in BOOLEAN, probe2 \in {"ok", "fail"} :
       LET ensured == EnsureSession(probe)
           run == IF ensured.kind = "ok"
                  THEN SaveRecordRun(fail, toast, viewUrl)
                  ELSE Threw(<<>>, ensured.code)
           again == EnsureSession(probe2)
       IN /\ UiSettleTool("handleRecordSave",
               [NoInput EXCEPT !.waitForSave = waitForSave,
                               !.probe = probe, !.fail = fail,
                               !.toast = toast, !.viewUrl = viewUrl,
                               !.probe2 = probe2],
               run, NoPrev,
               IF ensured.kind # "ok"
               THEN ToolCatch("record", ensured.code, {},
                              ensured.suggestion)
               ELSE IF run.raised # "none"
               THEN ToolCatch("record", "none", {}, "absent")
               ELSE IF waitForSave = "false" THEN SuccessResult
               ELSE IF again.kind # "ok"
               THEN ToolCatch("record", again.code, {}, again.suggestion)
               ELSE OutcomeResult(run.ret.success))
          /\ state' = IF ensured.kind = "ok"
                      THEN [state EXCEPT !.lastActivity = now]
                      ELSE state
  /\ UNCHANGED <<tokenRefreshInterval, urlBuilder, cache, now, pc, call,
                 trace, statusTrace, live, starts, result, prevClose,
                 toolResult, lastGet, waitVars, uiPage, urlCall, proc, tasks>>

\* ---- sf_record_delete
\* variant: anything but an explicit false confirms
ConfirmRequested_Default(confirm) == confirm # "false"

\* `if (args.confirm)`
ConfirmRequested(confirm) == confirm = "true"

DeleteSteps == <<"deleteButton.click", "waitForModal">>

HandleRecordDeleteRun(confirm, fail, toast) ==
  LET head == <<E("click", "deleteButton"), E("wait", "modal")>>
      k == Pos(DeleteSteps, fail)
  IN IF k > 0 THEN Threw(SubSeq(head, 1, k - 1), "action")
     ELSE IF ~ConfirmRequested(confirm)
     THEN Ran(head, Payload(TRUE, "Delete confirmation dialog is open"))
     ELSE IF fail = "confirmButton.click" THEN Threw(head, "action")
     ELSE IF toast # "timeout"
     THEN Ran(head \o <<E("click", "confirmButton"), E("wait", "toast")>>,
              Payload(toast = "success", "toast"))
     ELSE Ran(head \o <<E("click", "confirmButton")>>,
              Payload(TRUE, "Delete operation completed"))

HandleRecordDelete ==
  /\ uiCall.op = "none"
  /\ \E confirm \in Optional, probe \in {"ok", "fail"},
        fail \in {"none", "confirmButton.click"} \cup
                 {DeleteSteps[i] : i \in 1..Len(DeleteSteps)},
        toast \in ToastOutcomes :
       LET ensured == EnsureSession(probe)
           run == IF ensured.kind = "ok"
                  THEN HandleRecordDeleteRun(confirm, fail, toast)
                  ELSE Threw(<<>>, ensured.code)
           viaToast == Len(run.log) > 0
                       /\ run.log[Len(run.log)] = E("wait", "toast")
       IN /\ UiSettleTool("handleRecordDelete",
               [NoInput EXCEPT !.confirm = confirm, !.probe = probe,
                               !.fail = fail, !.toast = toast],
               run, NoPrev,
               IF ensured.kind # "ok"
               THEN ToolCatch("record", ensured.code, {},
                              ensured.suggestion)
               ELSE IF run.raised # "none"
               THEN ToolCatch("record", "none", {}, "absent")
               ELSE IF viaToast THEN OutcomeResult(run.ret.success)
               ELSE SuccessResult)
          /\ state' = IF ensured.kind = "ok"
                      THEN [state EXCEPT !.lastActivity = now]
                      ELSE state
  /\ UNCHANGED <<tokenRefreshInterval, urlBuilder, cache, now, pc, call,
                 trace, statusTrace, live, starts, result, prevClose,
                 toolResult, lastGet, waitVars, uiPage, urlCall, proc, tasks>>

\* ---- openApp
SearchSelectors == 1..7    \* searchSelectors, in list order
AppSelectors == 1..6       \* appSelectors, in list order

\* the selectors of a list that match a visible element
VisibleSets(S) == {T \in SUBSET S : Cardinality(T) <= MaxVisible}

\* variant: the last visible selector wins
FirstOf_Last(S) == IF S = {} THEN 0 ELSE CHOOSE i \in S : \A j \in S : j <= i

\* `for (const selector of ...) { if (visible) { ...; break; } }`
FirstOf(S) == IF S = {} THEN 0 ELSE CHOOSE i \in S : \A j \in S : i <= j

Probes(target, last) == [i \in 1..last |-> EI("probe", target, i)]

\* the isVisible probe and the click share one try: a click that rejects
\* is swallowed and the loop goes on to the next selector
OpenAppRun(fail, panel, search, apps, bad) ==
  LET k == Pos(<<"launcher.waitFor", "launcher.click">>, fail)
      launch == <<E("wait", "launcher"), E("click", "launcher")>>
      opened == launch \o <<E("sleep", "1000"),
                            IF panel THEN E("wait", "panel")
                            ELSE E("sleep", "2000")>>
      found == FirstOf(search)
      searched == opened \o Probes("search", found)
      typed == searched \o <<EI("fill", "search", found),
                             E("wait", "spinners"), E("sleep", "1000")>>
      hit == FirstOf(apps \ bad)
  IN IF k > 0 THEN Threw(SubSeq(launch, 1, k - 1), "action")
     ELSE IF found = 0
     THEN Threw(opened \o Probes("search", Cardinality(SearchSelectors)),
                "NoSearchInput")
     ELSE IF fail = "searchInput.fill" THEN Threw(searched, "action")
     ELSE IF hit = 0
     THEN Threw(typed \o Probes("app", Cardinality(AppSelectors)),
                "AppNotFound")
     ELSE IF fail = "waitForNavigation"
     THEN Threw(typed \o Probes("app", hit) \o <<EI("click", "app", hit)>>,
                "action")
     ELSE Ran(typed \o Probes("app", hit)
                \o <<EI("click", "app", hit), E("wait", "navigation")>>,
              Void)

OpenApp ==
  /\ uiCall.op = "none"
  /\ \E fail \in {"none", "launcher.waitFor", "launcher.click",
                  "searchInput.fill", "waitForNavigation"},
        panel \in BOOLEAN, search \in VisibleSets(SearchSelectors),
        apps \in VisibleSets(AppSelectors) :
       \E bad \in SUBSET apps :
         UiSettle("openApp",
                  [NoInput EXCEPT !.fail = fail, !.panel = panel,
                                  !.search = search, !.apps = apps,
                                  !.bad = bad],
                  OpenAppRun(fail, panel, search, apps, bad), NoPrev)
  /\ UNCHANGED <<coreVars, waitVars, uiPage, urlCall, proc, tasks>>

\* the call returns to its caller; only what the next setCheckbox call is
\* compared with is kept
UiReturn ==
  /\ uiCall.op # "none"
  /\ uiCall' = [NoUiCall EXCEPT
                  !.prev = IF uiCall.op = "setCheckbox"
                           THEN [op |-> "setCheckbox",
                                 checked |-> uiCall.input.checked,
                                 clicks |-> Len(ClicksOn(uiCall.log,
                                                         "checkbox"))]
                           ELSE NoPrev]
  /\ UNCHANGED <<coreVars, waitVars, uiPage, urlCall, proc, tasks>>

\* the session sf_session_start("orgA") established at time 0
InitPatterns ==
  /\ state = [browser |-> 1, context |-> 1, page |-> 1,
              orgInfo |-> FreshInfo("orgA", 0), status |-> "connected",
              lastActivity |-> 0, instanceUrl |-> InstanceUrlOf("orgA"),
              orgAlias |-> "orgA"]
  /\ tokenRefreshInterval = 1
  /\ urlBuilder = InstanceUrlOf("orgA")
  /\ cache = [a \in Aliases |->
                IF a = "orgA"
                THEN [orgInfo |-> FreshInfo("orgA", 0), cachedAt |-> 0,
                      expiresAt |-> CACHE_TTL_MS]
                ELSE NoEntry]
  /\ now = 0
  /\ pc = "idle"
  /\ call = [NoCall EXCEPT !.op = "start", !.alias = "orgA",
                           !.closeRet = "start", !.ext = TRUE,
                           !.acquired = {<<"browser", 1>>, <<"context", 1>>,
                                         <<"page", 1>>}]
  /\ trace = <<"fetch", "frontdoor", "launch", "newContext", "newPage",
               "goto", "wait">>
  /\ statusTrace = <<"disconnected", "connecting", "connected">>
  /\ live = {<<"browser", 1>>, <<"context", 1>>, <<"page", 1>>}
  /\ starts = 1
  /\ result = Returned(0)
  /\ prevClose = "none"
  /\ toolResult = SuccessResult
  /\ lastGet = NoGet
  /\ pageState = BlankPage
  /\ wclock = 0
  /\ wpc = "idle"
  /\ wcall = NoWait
  /\ InitUi

NextPatterns ==
  \/ SelectLookupValue
  \/ SetCheckbox
  \/ HandleRecordSave
  \/ HandleRecordDelete
  \/ OpenApp
  \/ UiReturn

SpecPatterns == InitPatterns /\ [][NextPatterns]_vars

\* ---- sf_wait_for_spinner
\* {success: true, message: 'Spinners have disappeared'}
SpinnersGone == SuccessResult

\* {success: false, message: 'Spinners did not disappear within timeout'},
\* isError: true
SpinnersStayed == FlaggedFailureResult

\* handleWaitForSpinner up to its first suspension: ensureSession, whose
\* rejection the catch turns into the failure result, then
\* waitForNoSpinners(args.timeout ?? 15000) is entered
HandleWaitForSpinner ==
  /\ wpc = "idle"
  /\ \E probe \in {"ok", "fail"} :
       LET ensured == EnsureSession(probe)
       IN IF ensured.kind = "ok"
          THEN /\ \E timeout \in Timeouts("waitForNoSpinners"),
                     p \in PagesFor("waitForNoSpinners") :
                    /\ pageState' = p
                    /\ wcall' = NewWait("waitForNoSpinners", timeout, p)
               /\ wclock' = 0
               /\ wpc' = "spinners"
               /\ state' = [state EXCEPT !.lastActivity = now]
               /\ toolResult' = NoToolResult
          ELSE /\ pageState' = BlankPage
               /\ wcall' = NoWait
               /\ wclock' = 0
               /\ wpc' = "idle"
               /\ state' = state
               /\ toolResult' = SpinnersStayed
  /\ UNCHANGED <<tokenRefreshInterval, urlBuilder, cache, now, pc, call,
                 trace, statusTrace, live, starts, result, prevClose,
                 lastGet, sideVars>>

\* waitForNoSpinners has settled: the try returns the success result, the
\* catch the failure result.  wcall and pageState stay as the record of
\* the call and of the page it left behind.
HandleWaitForSpinnerReturn ==
  /\ wpc = "done"
  /\ wcall.kind = "waitForNoSpinners"
  /\ wpc' = "idle"
  /\ toolResult' = IF wcall.outcome = "raised" THEN SpinnersStayed
                   ELSE SpinnersGone
  /\ UNCHANGED <<state, tokenRefreshInterval, urlBuilder, cache, now, pc,
                 call, trace, statusTrace, live, starts, result, prevClose,
                 lastGet, pageState, wclock, wcall, sideVars>>

\* sf_wait_for_spinner is called with and without a connected session
InitSpinner == Init \/ InitPatterns

NextSpinner ==
  \/ HandleWaitForSpinner
  \/ PollBestEffort
  \/ HandleWaitForSpinnerReturn

SpecSpinner == InitSpinner /\ [][NextSpinner]_vars

\* ------------------------------------------------- SalesforceUrlBuilder
\* `if (x)` on an optional string: undefined and '' are falsy
Truthy(x) == x # Undefined /\ x # <<>>

\* a literal that begins with '/'
Lit(rest) == <<"/", rest>>

ArgStrings == {<<"Account">>, <<"001">>}
OptStrings == ArgStrings \cup {Undefined, <<>>}

\* the keys of the sectionMap literal
MappedSections ==
  {<<"Fields">>, <<"PageLayouts">>, <<"ValidationRules">>, <<"Triggers">>,
   <<"LightningPages">>, <<"Buttons">>}

\* names every object literal inherits from Object.prototype
InheritedKeys == {<<"constructor">>, <<"toString">>}

Sections == MappedSections \cup InheritedKeys \cup {<<"Custom">>}

\* sectionMap[section]: own keys, then what the prototype chain answers
\* (a function, which `${...}` renders as its source text), else undefined
SectionLookup(section) ==
  CASE section = <<"Fields">> -> <<"FieldsAndRelationships">>
    [] section = <<"PageLayouts">> -> <<"PageLayouts">>
    [] section = <<"ValidationRules">> -> <<"ValidationRules">>
    [] section = <<"Triggers">> -> <<"ApexTriggers">>
    [] section = <<"LightningPages">> -> <<"LightningRecordPages">>
    [] section = <<"Buttons">> -> <<"ButtonsLinksActions">>
    [] section = <<"constructor">> ->
         <<"function Object() { [native code] }">>
    [] section = <<"toString">> ->
         <<"function toString() { [native code] }">>
    [] OTHER -> Undefined

\* `sectionMap[section] || section`
SectionSegment(section) ==
  IF Truthy(SectionLookup(section)) THEN SectionLookup(section)
  ELSE section

PathFunctions ==
  {"objectHome", "recordView", "recordEdit", "newRecord", "home",
   "setupHome", "setupPage", "objectManager", "flowBuilder", "users",
   "permissionSets", "profiles", "profile", "permissionSet", "apexClasses",
   "customSettings", "customMetadataTypes", "appManager",
   "lightningAppBuilder", "developerConsole"}

\* the value each path function returns; `self` is this.instanceUrl, which
\* none of them reads
PathOf(self, fn, a, b) ==
  CASE fn = "objectHome" ->
         IF Truthy(b)
         THEN Lit("lightning/o/") \o a \o <<"/list?filterName=">> \o b
         ELSE Lit("lightning/o/") \o a \o <<"/list">>
    [] fn = "recordView" -> Lit("lightning/r/") \o a \o <<"/view">>
    [] fn = "recordEdit" -> Lit("lightning/r/") \o a \o <<"/edit">>
    [] fn = "newRecord" ->
         IF Truthy(b)
         THEN Lit("lightning/o/") \o a \o <<"/new">>
                \o <<"?recordTypeId=">> \o b
         ELSE Lit("lightning/o/") \o a \o <<"/new">>
    [] fn = "home" -> Lit("lightning/page/home")
    [] fn = "setupHome" -> Lit("lightning/setup/SetupOneHome/home")
    [] fn = "setupPage" -> Lit("lightning/setup/") \o a \o <<"/home">>
    [] fn = "objectManager" ->
         IF Truthy(b)
         THEN Lit("lightning/setup/ObjectManager/") \o a \o <<"/">>
                \o SectionSegment(b) \o <<"/view">>
         ELSE Lit("lightning/setup/ObjectManager/") \o a
    [] fn = "flowBuilder" ->
         IF Truthy(a)
         THEN Lit("builder_platform_interaction/flowBuilder.app?flowId=")
                \o a
         ELSE Lit("lightning/setup/Flows/home")
    [] fn = "users" -> Lit("lightning/setup/ManageUsers/home")
    [] fn = "permissionSets" -> Lit("lightning/setup/PermSets/home")
    [] fn = "profiles" -> Lit("lightning/setup/Profiles/home")
    [] fn = "profile" ->
         Lit("lightning/setup/Profiles/page?address=%2F") \o a
    [] fn = "permissionSet" ->
         Lit("lightning/setup/PermSets/page?address=%2F") \o a
    [] fn = "apexClasses" -> Lit("lightning/setup/ApexClasses/home")
    [] fn = "customSettings" -> Lit("lightning/setup/CustomSettings/home")
    [] fn = "customMetadataTypes" ->
         Lit("lightning/setup/CustomMetadata/home")
    [] fn = "appManager" -> Lit("lightning/setup/NavigationMenus/home")
    [] fn = "lightningAppBuilder" ->
         IF Truthy(a) THEN Lit("visualEditor/appBuilder.app?pageId=") \o a
         ELSE Lit("lightning/setup/FlexiPageList/home")
    [] fn = "developerConsole" -> Lit("_ui/common/apex/debug/ApexCSIPage")

\* the arguments each path function is called with
FirstArgs(fn) ==
  IF fn \in {"objectHome", "recordView", "recordEdit", "newRecord",
             "setupPage", "objectManager", "profile", "permissionSet"}
  THEN ArgStrings
  ELSE IF fn \in {"flowBuilder", "lightningAppBuilder"} THEN OptStrings
  ELSE {Undefined}

SecondArgs(fn) ==
  IF fn \in {"objectHome", "newRecord"} THEN OptStrings
  ELSE IF fn = "objectManager" THEN Sections \cup {Undefined, <<>>}
  ELSE {Undefined}

\* path.startsWith('/')
StartsWithSlash(path) == Len(path) > 0 /\ path[1] = "/"

\* fullUrl(path)
FullUrl(self, path) ==
  <<self>> \o (IF StartsWithSlash(path) THEN path ELSE <<"/">> \o path)

\* paths handed to fullUrl: with and without a leading slash
RawPaths == {Lit("lightning/page/home"), <<"lightning/page/home">>, <<>>}

InstanceUrls == {InstanceUrlOf(a) : a \in Aliases}

UrlSettle(fn, a, b, out) ==
  urlCall' = [last |-> [fn |-> fn, a |-> a, b |-> b, out |-> out,
                        instanceUrl |-> urlBuilder],
              prev |-> urlCall.last]

\* one of the path functions is called
CallPath ==
  /\ urlBuilder # "null"
  /\ \E fn \in PathFunctions :
       \E a \in FirstArgs(fn), b \in SecondArgs(fn) :
         UrlSettle(fn, a, b, PathOf(urlBuilder, fn, a, b))
  /\ UNCHANGED <<coreVars, waitVars, uiVars, proc, tasks>>

CallFullUrl ==
  /\ urlBuilder # "null"
  /\ \E path \in RawPaths :
       UrlSettle("fullUrl", path, Undefined, FullUrl(urlBuilder, path))
  /\ UNCHANGED <<coreVars, waitVars, uiVars, proc, tasks>>

\* setInstanceUrl(instanceUrl)
SetInstanceUrl ==
  /\ urlBuilder # "null"
  /\ \E u \in InstanceUrls : urlBuilder' = u
  /\ UNCHANGED <<state, tokenRefreshInterval, cache, now, pc, call, trace,
                 statusTrace, live, starts, result, prevClose, toolResult,
                 lastGet, waitVars, sideVars>>

\* new SalesforceUrlBuilder(instanceUrl), outside any session
InitUrl ==
  /\ state = InitialState
  /\ tokenRefreshInterval = 0
  /\ urlBuilder \in InstanceUrls
  /\ cache = [a \in Aliases |-> NoEntry]
  /\ now = 0
  /\ pc = "idle"
  /\ call = NoCall
  /\ trace = <<>>
  /\ statusTrace = <<>>
  /\ live = {}
  /\ starts = 0
  /\ result = NoResult
  /\ prevClose = "none"
  /\ toolResult = NoToolResult
  /\ lastGet = NoGet
  /\ pageState = BlankPage
  /\ wclock = 0
  /\ wpc = "idle"
  /\ wcall = NoWait
  /\ InitUi

NextUrl ==
  \/ CallPath
  \/ CallFullUrl
  \/ SetInstanceUrl

SpecUrl == InitUrl /\ [][NextUrl]_vars

\* ------------------------------------------------ process shutdown
\* what brings the process down: the two signals, the two process-level
\* error events, and a rejection of main() itself
Causes == {"SIGINT", "SIGTERM", "uncaughtException", "unhandledRejection",
           "startup"}

\* process.exit(0) in shutdown(), process.exit(1) in the error handlers
ExitCode(cause) == IF cause \in {"SIGINT", "SIGTERM"} THEN 0 ELSE 1

CloseOrder == <<"page", "context", "browser">>

Handles(st) ==
  {<<CloseOrder[j], st[CloseOrder[j]]>> :
     j \in {i \in 1..3 : st[CloseOrder[i]] # 0}}

\* the first block of closeSession after block k whose handle is set,
\* 4 when closeSession runs through to its reset
NextBlock(st, k) ==
  IF \E j \in (k + 1)..3 : st[CloseOrder[j]] # 0
  THEN CHOOSE j \in (k + 1)..3 :
         /\ st[CloseOrder[j]] # 0
         /\ \A i \in (k + 1)..3 : st[CloseOrder[i]] # 0 => j <= i
  ELSE 4

\* variant: process.exit is reached without awaiting cleanupServer()
CleanupAwaited_No(j) == TRUE

\* `await cleanupServer(); process.exit(...)`: the exit waits for
\* closeSession to run through
CleanupAwaited(j) == j = 4

\* closeSession, run by a shutdown handler, goes on from block k with the
\* session state st: up to its next `await X.close()`, or through the
\* reset to process.exit
ShutdownFrom(p, st, k) ==
  LET j == NextBlock(st, k)
      closing == IF j = 4 THEN {}
                 ELSE {<<CloseOrder[j], st[CloseOrder[j]]>>}
  IN /\ live' = live \ closing
     /\ IF CleanupAwaited(j)
        THEN /\ state' = IF j = 4
                         THEN [st EXCEPT !.status = "disconnected",
                                         !.orgInfo = NullInfo,
                                         !.instanceUrl = "null",
                                         !.lastActivity = -1]
                         ELSE st
             /\ urlBuilder' = IF j = 4 THEN "null" ELSE urlBuilder
             /\ proc' = [p EXCEPT !.pc = "exited",
                                  !.code = ExitCode(p.cause),
                                  !.atExit = live \ closing,
                                  !.status = IF j = 4 THEN "disconnected"
                                             ELSE st.status]
        ELSE /\ state' = st
             /\ urlBuilder' = urlBuilder
             /\ proc' = [p EXCEPT !.pc = CloseOrder[j]]

\* a signal or a process-level error event arrives, at any await point of
\* the call in flight: the handler calls cleanupServer(), whose
\* closeSession clears the monitor's interval first
Shutdown(cause) ==
  /\ proc.pc = "running"
  /\ cause = "startup" => (starts = 0 /\ call = NoCall)
  /\ tokenRefreshInterval' = 0
  /\ ShutdownFrom([proc EXCEPT !.cause = cause, !.held = Handles(state)],
                  state, 0)
  /\ UNCHANGED <<cache, now, pc, call, trace, statusTrace, starts, result,
                 prevClose, toolResult, lastGet, waitVars, uiVars, urlCall,
                 tasks>>

\* the close() the shutdown awaits settles (a rejection is swallowed):
\* the handle is set to null and closeSession goes on
ShutdownSettle ==
  /\ proc.pc \in {"page", "context", "browser"}
  /\ LET k == CHOOSE i \in 1..3 : CloseOrder[i] = proc.pc
     IN ShutdownFrom(proc, [state EXCEPT ![proc.pc] = 0], k)
  /\ UNCHANGED <<tokenRefreshInterval, cache, now, pc, call, trace,
                 statusTrace, starts, result, prevClose, toolResult,
                 lastGet, waitVars, uiVars, urlCall,
                 tasks>>

\* the session's calls go on while the process is alive
Alive(A) == proc.pc # "exited" /\ A

NextShutdown ==
  \/ \E alias \in Aliases : Alive(HandleSessionStart(alias))
  \/ Alive(StartConnecting)
  \/ Alive(StartOrgInfo)
  \/ Alive(StartFrontdoor)
  \/ Alive(StartLaunch)
  \/ Alive(StartContext)
  \/ Alive(StartPage)
  \/ Alive(StartGoto)
  \/ Alive(StartWait)
  \/ Alive(StartThrow)
  \/ Alive(HandleSessionClose)
  \/ Alive(ClosePage)
  \/ Alive(CloseContext)
  \/ Alive(CloseBrowser)
  \/ Alive(CloseReset)
  \/ \E cause \in Causes : Shutdown(cause)
  \/ ShutdownSettle

SpecShutdown == Init /\ [][NextShutdown]_vars

\* ------------------------------------------------- overlapping calls
\* The protocol layer dispatches a request while another one is awaiting:
\* two calls of startSession / closeSession interleave at their awaits.
\* Each action is one synchronous run of a task, from a settled await to
\* the next.  w is what the tasks share, l the locals of the running task.
World ==
  [st |-> state, tri |-> tokenRefreshInterval, ub |-> urlBuilder,
   live |-> live]

\* closeSession goes on after block k, up to its next `await X.close()`
\* or, through the reset, back into its caller
CloseFrom(w, l, k) ==
  LET j == NextBlock(w.st, k)
      done == [w EXCEPT !.st = [w.st EXCEPT !.status = "disconnected",
                                            !.orgInfo = NullInfo,
                                            !.instanceUrl = "null",
                                            !.lastActivity = -1],
                        !.ub = "null"]
  IN IF j < 4
     THEN [w |-> [w EXCEPT !.live =
                     @ \ {<<CloseOrder[j], w.st[CloseOrder[j]]>>}],
           l |-> [l EXCEPT !.pc = CloseOrder[j]]]
     ELSE IF l.ret = "start"
     THEN [w |-> [done EXCEPT !.st = [done.st EXCEPT
                                        !.status = "connecting",
                                        !.orgAlias = l.alias]],
           l |-> [l EXCEPT !.pc = "s_orginfo"]]
     ELSE [w |-> done, l |-> NoTask]

\* closeSession is entered: the monitor's interval is cleared
CloseBegin(w, l) ==
  CloseFrom([w EXCEPT !.tri = 0, !.live = @ \ {<<"timer", w.tri>>}], l, 0)

\* the catch of startSession up to the first await of its closeSession
StartCatch(w, l) ==
  CloseBegin([w EXCEPT !.st = [w.st EXCEPT !.status = "error"]],
             [l EXCEPT !.ret = "catch"])

\* startTokenRefreshMonitoring(): this.tokenRefreshInterval = setInterval
MonitorStarted(w, id) ==
  [w EXCEPT !.tri = id, !.live = @ \cup {<<"timer", id>>}]

\* the awaits of startSession's try, in code order, and the state field
\* the value of each is assigned to
StartAwaits ==
  <<"s_orginfo", "s_frontdoor", "s_launch", "s_context", "s_page",
    "s_goto", "s_wait">>
Assigned(at) ==
  CASE at = "s_launch" -> "browser"
    [] at = "s_context" -> "context"
    [] at = "s_page" -> "page"
    [] OTHER -> "none"

\* an await of startSession's try has been fulfilled: the run up to the
\* next await, or to the return after the last one
StartFrom(w, l) ==
  LET k == CHOOSE i \in 1..Len(StartAwaits) : StartAwaits[i] = l.pc
      info == FreshInfo(l.alias, now)
      w1 == IF l.pc = "s_orginfo"
            THEN [w EXCEPT !.st = [w.st EXCEPT
                                     !.orgInfo = info,
                                     !.instanceUrl = info.instanceUrl],
                           !.ub = info.instanceUrl]
            ELSE IF Assigned(l.pc) # "none"
            THEN [w EXCEPT !.st = [w.st EXCEPT ![Assigned(l.pc)] = l.id],
                           !.live = @ \cup {<<Assigned(l.pc), l.id>>}]
            ELSE w
  IN IF k < Len(StartAwaits)
     THEN [w |-> w1, l |-> [l EXCEPT !.pc = StartAwaits[k + 1]]]
     ELSE [w |-> MonitorStarted(
                   [w1 EXCEPT !.st = [w1.st EXCEPT !.status = "connected",
                                                   !.lastActivity = now]],
                   l.id),
           l |-> NoTask]

\* the run r of task t takes effect
Ran2(t, r) ==
  /\ state' = r.w.st
  /\ tokenRefreshInterval' = r.w.tri
  /\ urlBuilder' = r.w.ub
  /\ live' = r.w.live
  /\ tasks' = [tasks EXCEPT ![t] = r.l]

\* a task is given sf_session_start(alias): closeSession is entered
TaskStart(t, alias) ==
  /\ tasks[t].pc = "idle"
  /\ starts < MaxStarts
  /\ starts' = starts + 1
  /\ Ran2(t, CloseBegin(World, [pc |-> "idle", ret |-> "start",
                                alias |-> alias, id |-> starts + 1]))
  /\ UNCHANGED <<cache, now, pc, call, trace, statusTrace, result,
                 prevClose, toolResult, lastGet, waitVars, uiVars, urlCall,
                 proc>>

\* a task is given sf_session_close
TaskClose(t) ==
  /\ tasks[t].pc = "idle"
  /\ Ran2(t, CloseBegin(World, [NoTask EXCEPT !.ret = "close"]))
  /\ UNCHANGED <<cache, now, pc, call, trace, statusTrace, starts, result,
                 prevClose, toolResult, lastGet, waitVars, uiVars, urlCall,
                 proc>>

\* the close() a task awaits settles (a rejection is swallowed)
TaskCloseSettles(t) ==
  /\ tasks[t].pc \in {"page", "context", "browser"}
  /\ LET k == CHOOSE i \in 1..3 : CloseOrder[i] = tasks[t].pc
         w == [World EXCEPT !.st = [state EXCEPT ![tasks[t].pc] = 0]]
     IN Ran2(t, CloseFrom(w, tasks[t], k))
  /\ UNCHANGED <<cache, now, pc, call, trace, statusTrace, starts, result,
                 prevClose, toolResult, lastGet, waitVars, uiVars, urlCall,
                 proc>>

\* the await of startSession's try that a task is at settles
TaskStartSettles(t) ==
  /\ tasks[t].pc \in {StartAwaits[i] : i \in 1..Len(StartAwaits)}
  /\ \E ok \in BOOLEAN :
       Ran2(t, IF ok THEN StartFrom(World, tasks[t])
               ELSE StartCatch(World, tasks[t]))
  /\ UNCHANGED <<cache, now, pc, call, trace, statusTrace, starts, result,
                 prevClose, toolResult, lastGet, waitVars, uiVars, urlCall,
                 proc>>

NextOverlap ==
  \/ \E t \in Tasks, alias \in Aliases : TaskStart(t, alias)
  \/ \E t \in Tasks : TaskClose(t)
  \/ \E t \in Tasks : TaskCloseSettles(t)
  \/ \E t \in Tasks : TaskStartSettles(t)

SpecOverlap == Init /\ [][NextOverlap]_vars

\* ===================================================================
\* Properties
\* ===================================================================
Count(seq, e) == Cardinality({i \in DOMAIN seq : seq[i] = e})
LiveOf(kind) == {r \in live : r[1] = kind}
Settled(op) == pc = "idle" /\ call.op = op

\* the collaborator calls of closeSession and of the bootstrap, in code order
Teardown == <<"stopMonitor", "closePage", "closeContext", "closeBrowser">>
Bootstrap ==
  <<"fetch", "frontdoor", "launch", "newContext", "newPage", "goto", "wait">>

\* what the catch block's closeSession closes when bootstrap step k failed
OwnCleanup(k) ==
  (IF k > 5 THEN <<"closePage">> ELSE <<>>)
  \o (IF k > 4 THEN <<"closeContext">> ELSE <<>>)
  \o (IF k > 3 THEN <<"closeBrowser">> ELSE <<>>)

\* C1: with serialized startSession/closeSession calls at most one browser,
\* one context and one page launched by SessionManager are live at any
\* moment (live: launched and close() not yet called on it), and while
\* startSession bootstraps, nothing of the prior session is live any more.
C1_AtMostOneLive ==
  /\ \A kind \in {"browser", "context", "page"} :
       Cardinality(LiveOf(kind)) <= 1
  /\ pc \in {"s_begin", "s_orginfo", "s_frontdoor", "s_launch", "s_context",
             "s_page", "s_goto", "s_wait"}
       => live \cap call.prior = {}

\* a second session's browser is live after the first session's was closed
C1_Witness ==
  /\ call.op = "start"
  /\ call.prior # {}
  /\ <<"browser", starts>> \in live
  /\ <<"browser", starts>> \notin call.prior

\* C2: a startSession called while connected performs the teardown of the
\* running session exactly once (stop monitor, close page, context,
\* browser, in that order and before anything else) and then exactly one
\* bootstrap attempt, whose steps run once each in code order up to the
\* step that fails; a failed attempt ends by closing what it acquired.
C2_OneTeardownOneBootstrap ==
  (Settled("start") /\ call.wasConnected) =>
    \E k \in 1..Len(Bootstrap) :
      /\ result.kind = "ok" => k = Len(Bootstrap)
      /\ trace = Teardown \o SubSeq(Bootstrap, 1, k)
                 \o (IF result.kind = "ok" THEN <<>> ELSE OwnCleanup(k))

\* a restart of a connected session whose navigation failed
C2_Witness ==
  /\ Settled("start")
  /\ call.wasConnected
  /\ call.err.step = "goto"
  /\ Count(trace, "launch") = 1

\* C3 as claimed: every status change is one of disconnected->connecting,
\* connecting->connected, connected->error, error->disconnected,
\* connected->disconnected.
C3_ClaimedTransitions ==
  {<<"disconnected", "connecting">>, <<"connecting", "connected">>,
   <<"connected", "error">>, <<"error", "disconnected">>,
   <<"connected", "disconnected">>}

C3_Original ==
  [][state.status' # state.status
       => <<state.status, state.status'>> \in C3_ClaimedTransitions]_vars

\* C3 (amended): every status change is one of disconnected->connecting,
\* connecting->connected, connecting->error, error->disconnected,
\* connected->disconnected; connecting is entered only from disconnected
\* and error only from connecting.
C3_StatusTransitions ==
  [][state.status' # state.status
       => <<state.status, state.status'>> \in
            {<<"disconnected", "connecting">>, <<"connecting", "connected">>,
             <<"connecting", "error">>, <<"error", "disconnected">>,
             <<"connected", "disconnected">>}]_vars

\* a failed bootstrap has put the session in error
C3_Witness ==
  /\ state.status = "error"
  /\ statusTrace = <<"disconnected", "connecting", "error">>

\* C4: a startSession whose steps all succeed assigns status disconnected,
\* connecting, connected and leaves orgInfo, instanceUrl and orgAlias set
\* for the requested alias; closeSession then leaves status disconnected
\* with page, context and browser null, and the ensureSession after that
\* raises SESSION_NOT_STARTED.
C4_StartThenClose ==
  /\ (Settled("start") /\ result.kind = "ok") =>
       /\ statusTrace = <<"disconnected", "connecting", "connected">>
       /\ state.status = "connected"
       /\ state.orgInfo # NullInfo
       /\ state.orgInfo.alias = call.alias
       /\ state.instanceUrl = state.orgInfo.instanceUrl
       /\ state.instanceUrl = InstanceUrlOf(call.alias)
       /\ state.orgAlias = call.alias
  /\ Settled("close") =>
       /\ state.status = "disconnected"
       /\ state.page = 0 /\ state.context = 0 /\ state.browser = 0
  /\ (Settled("tool") /\ prevClose # "none" /\ result.kind # "none") =>
       result.code = "SESSION_NOT_STARTED"

\* ensureSession right after the close of a session that was connected
C4_Witness ==
  /\ Settled("tool")
  /\ prevClose = "live"
  /\ result.code = "SESSION_NOT_STARTED"

\* C5: when a step of startSession fails, then by the time the error
\* reaches the caller the status has been error, every browser, context and
\* page the call acquired has had close() called and its handle is null,
\* and the error raised is the classified original error even when a close
\* call failed.
C5_FailedStartReleases ==
  (call.op = "start" /\ call.err.step # "none"
     /\ (pc = "s_throw" \/ pc = "idle")) =>
    /\ Count(statusTrace, "error") = 1
    /\ state.page = 0 /\ state.context = 0 /\ state.browser = 0
    /\ call.acquired \cap live = {}
    /\ pc = "idle" =>
         /\ result.kind = "raised"
         /\ result.code \in {"ORG_NOT_FOUND", "AUTHENTICATION_FAILED"}
         /\ result.raw = call.err.msg

\* the bootstrap wait failed with all three resources acquired, and a
\* close call of the cleanup failed too
C5_Witness ==
  /\ Settled("start")
  /\ call.err.step = "wait"
  /\ Cardinality(call.acquired) = 3
  /\ call.closeFailed
  /\ result.kind = "raised"

\* the credential source said that no org matches the alias
NoOrgReported ==
  /\ call.err.step \in {"fetch", "frontdoor"}
  /\ "No org" \in call.err.raw

\* C6: startSession raises ORG_NOT_FOUND exactly when the credential source
\* reported that no org matches the alias, and AUTHENTICATION_FAILED for a
\* failure of any other kind or step.
C6_ErrorClassification ==
  (Settled("start") /\ result.kind = "raised") =>
    /\ result.code = "ORG_NOT_FOUND" <=> NoOrgReported
    /\ ~NoOrgReported => result.code = "AUTHENTICATION_FAILED"

\* C7: ensureSession returns the page handle iff status is connected and
\* the page.evaluate probe succeeds; it raises SESSION_NOT_STARTED whenever
\* status is not connected and SESSION_EXPIRED when status is connected and
\* the probe fails.
C7_EnsureSession ==
  (Settled("tool") /\ result.kind # "none") =>
    /\ result.kind = "ok" <=> (state.status = "connected" /\ call.probe = "ok")
    /\ result.kind = "ok" => (result.page = state.page /\ state.page # 0)
    /\ state.status # "connected" => result.code = "SESSION_NOT_STARTED"
    /\ (state.status = "connected" /\ call.probe = "fail")
         => result.code = "SESSION_EXPIRED"

\* the probe failed on a connected session
C7_Witness ==
  /\ Settled("tool")
  /\ state.status = "connected"
  /\ call.probe = "fail"
  /\ result.code = "SESSION_EXPIRED"

\* position of a closeSession step in the order of the code
TeardownPos(e) == CHOOSE i \in DOMAIN Teardown : Teardown[i] = e

\* C8: closeSession never raises and always ends with status disconnected
\* and page, context and browser null (and no monitor), wherever it is
\* called from and also when close calls fail; it stops the monitor, then
\* closes page, context, browser in that order; called again, or with no
\* session, it calls nothing and succeeds.
C8_CloseSession ==
  /\ (pc \in {"s_begin", "s_throw"} \/ Settled("close")) =>
       /\ state.status = "disconnected"
       /\ state.page = 0 /\ state.context = 0 /\ state.browser = 0
       /\ tokenRefreshInterval = 0
  /\ Settled("close") =>
       /\ result.kind = "ok"
       /\ toolResult = SuccessResult
       /\ \A i, j \in DOMAIN trace :
            i < j => TeardownPos(trace[i]) < TeardownPos(trace[j])
       /\ call.wasConnected => trace = Teardown
       /\ (prevClose # "none" \/ call.prior = {}) => trace = <<>>

\* a connected session was closed although a close call failed
C8_Witness ==
  /\ Settled("close")
  /\ call.wasConnected
  /\ call.closeFailed
  /\ trace = Teardown

\* C9: OrgManager.getOrgInfo invokes the external credential source iff
\* forceRefresh is set, or the alias has no cache entry, or the entry's age
\* is at least the TTL; otherwise it returns the cached info; and the first
\* getOrgInfo after clearCache invokes the source.
C9_FetchIffStale ==
  lastGet.alias # "null" =>
    /\ lastGet.invoked <=>
         (lastGet.force \/ ~lastGet.hadEntry \/ lastGet.age >= CACHE_TTL_MS)
    /\ ~lastGet.invoked =>
         (lastGet.returned = lastGet.cached /\ lastGet.returned # NullInfo)
    /\ lastGet.afterClear => lastGet.invoked

\* an unforced fetch of an entry whose age reached the TTL went outside
C9_Witness ==
  /\ lastGet.alias # "null"
  /\ ~lastGet.force
  /\ lastGet.hadEntry
  /\ lastGet.age = CACHE_TTL_MS
  /\ lastGet.invoked

\* a ToolResult: a non-empty content list of text or image items (an image
\* with its MIME type) and an isError that is absent or true
WellFormed(r) ==
  /\ r.kind = "result"
  /\ Len(r.content) >= 1
  /\ \A i \in DOMAIN r.content :
       \/ r.content[i] = TextContent
       \/ r.content[i] = ImageContent
  /\ r.isError \in {"absent", "true"}

\* C10: every tool handler returns a well-formed ToolResult and lets no
\* exception escape, whatever fails: ensureSession, a browser action, a
\* wait, a credential call or a close call.
C10_HandlersReturnResults ==
  /\ toolResult.kind # "escaped"
  /\ (pc = "idle" /\ call.op # "none") => WellFormed(toolResult)

\* a browser action failed with an unclassified error after ensureSession
\* returned the page
C10_Witness ==
  /\ Settled("tool")
  /\ call.acted
  /\ toolResult = PlainErrorResult

\* C11: every tool operation that requires a page, invoked while no session
\* is active, returns a failure result whose error code is
\* SESSION_NOT_STARTED together with the suggestion to start a session, and
\* performs no browser action.
C11_NoSessionResult ==
  (Settled("tool") /\ state.status # "connected") =>
    /\ toolResult.kind = "result"
    /\ toolResult.isError = "true"
    /\ toolResult.code = "SESSION_NOT_STARTED"
    /\ toolResult.suggestion = "present"
    /\ ~call.acted
    /\ trace = <<>>

\* an error was caught by the handler of the settled call
CaughtError ==
  /\ pc = "idle"
  /\ call.caught \/ result.kind = "raised"

\* C12: every tool result produced from a caught error (a SalesforceError
\* or any other error) has isError = true; no handler returns a failure
\* outcome without the error flag.
C12_CaughtErrorsFlagged ==
  /\ CaughtError => toolResult.isError = "true"
  /\ (pc = "idle" /\ toolResult.success = "false")
       => toolResult.isError = "true"

\* a wait of one of the given kinds has settled
WaitDone(kinds) == wpc = "done" /\ wcall.kind \in kinds

C14_FirstProbeReturns ==
  (WaitDone(BestEffortWaits) /\ wcall.first) =>
    /\ wcall.outcome = "returned"
    /\ ~wcall.slept
    /\ wclock = 0
    /\ wcall.probes <= 1
    /\ wcall.timeout > 0 => wcall.probes = 1

\* spinners are present but all hidden, and one probe was enough
C14_Witness ==
  /\ WaitDone({"waitForNoSpinners"})
  /\ pageState.spinners = HiddenStyles
  /\ wcall.timeout >= 2
  /\ wcall.probes = 1
  /\ ~wcall.slept

HardWaits ==
  {"waitForLightningReady", "waitForFormReady", "waitForModal",
   "waitForToast"}

C16_Original ==
  (wcall.kind = "waitForLightningReady" /\ wcall.outcome = "raised")
    => wcall.raisedIn = "shell"

\* C16 (amended): waitForLightningReady raises only out of step (a) or
\* step (c), when the engine wait for the URL or the document used up the
\* timeout it was given with its condition still false, or out of step (d),
\* when the outer timeout is used up and the last probe found no shown
\* container; steps (b) and (e) never raise.
C16_RaisingSteps ==
  (wcall.kind = "waitForLightningReady" /\ wcall.outcome = "raised") =>
    /\ wcall.raisedIn \in {"url", "dom", "shell"}
    /\ wcall.raisedIn = "url" =>
         (pageState.url = "auth" /\ wclock >= wcall.limit)
    /\ wcall.raisedIn = "dom" =>
         (~pageState.dom /\ wclock - wcall.start >= wcall.limit)
    /\ wcall.raisedIn = "shell" => wclock >= wcall.timeout

\* the URL never left the auth domain and waitForURL rejected
C16_Witness ==
  /\ WaitDone({"waitForLightningReady"})
  /\ wcall.outcome = "raised"
  /\ wcall.raisedIn = "url"

\* the longest single suspension of a wait
POLL_MARGIN == URL_SAMPLE

CompositeWaits ==
  {"waitForLightningReady", "waitForFormReady", "waitForRecordPage",
   "waitForListView", "waitForSetupPage", "waitForModal"}

\* C17: in a wait that composes sub-waits, called with outer timeout T,
\* every inner wait is given at most T minus the time elapsed when it is
\* chained, and the whole call is over within T plus a polling margin.
C17_InnerWaitsShrink ==
  wcall.kind \in CompositeWaits =>
    /\ ~wcall.regrant
    /\ wclock <= wcall.timeout + POLL_MARGIN

\* what a wait does on a page that does not change: time at which the URL
\* debounce ends, and whether the wait raises
DebounceEnd(timeout) ==
  URL_SAMPLE * Min(STABLE_SAMPLES, (timeout + URL_SAMPLE - 1) \div URL_SAMPLE)

RaisesOn(kind, timeout, p) ==
  CASE kind \in BestEffortWaits -> FALSE
    [] kind = "waitForLightningReady" ->
         \/ p.url = "auth"
         \/ ~p.dom
         \/ p.shell # "shown"
         \/ DebounceEnd(timeout) >= timeout
    [] OTHER -> ~p.marker

ClaimedTarget(url) ==
  LET record == "/lightning/r/" \in url
      object == "/lightning/o/" \in url
      setup == "/lightning/setup/" \in url
  IN CASE record /\ "/edit" \in url -> "waitForFormReady"
       [] record /\ "/edit" \notin url -> "waitForRecordPage"
       [] ~record /\ object /\ "/new" \in url -> "waitForFormReady"
       [] ~record /\ object /\ "/new" \notin url -> "waitForListView"
       [] ~record /\ ~object /\ setup -> "waitForSetupPage"
       [] OTHER -> "waitForLightningReady"

\* C19: smartWait invokes exactly one of waitForFormReady,
\* waitForRecordPage, waitForListView, waitForSetupPage,
\* waitForLightningReady per call, chosen from the URL: record path with
\* edit -> form, other record path -> record page, object path with new ->
\* form, other object path -> list view, setup path -> setup page,
\* anything else -> generic bootstrap.
C19_SmartWaitDispatch ==
  /\ Len(wcall.invoked) <= 1
  /\ wpc = "dispatched" =>
       /\ Len(wcall.invoked) = 1
       /\ wcall.invoked[1] = ClaimedTarget(wcall.url)
       /\ wcall.invoked[1] \in
            {"waitForFormReady", "waitForRecordPage", "waitForListView",
             "waitForSetupPage", "waitForLightningReady"}

\* a new-record URL of an object went to the form wait
C19_Witness ==
  /\ wpc = "dispatched"
  /\ wcall.url = {"/lightning/o/", "/new"}
  /\ wcall.invoked = <<"waitForFormReady">>

\* C20: waitForToast classifies by first match in the order success,
\* error, warning, else info, for every combination of markers present;
\* the type depends on nothing but the markers the page shows.
C20_ToastPriority ==
  (WaitDone({"waitForToast"}) /\ wcall.outcome = "returned") =>
    LET m == pageState.toast
        t == wcall.toastType
    IN /\ "success" \in m => t = "success"
       /\ ("success" \notin m /\ "error" \in m) => t = "error"
       /\ (m = {"warning"}) => t = "warning"
       /\ (m = {}) => t = "info"
       /\ t \in {"success", "error", "warning", "info"}

\* success and error markers both present: success wins
C20_Witness ==
  /\ WaitDone({"waitForToast"})
  /\ pageState.toast = {"success", "error", "warning"}
  /\ wcall.toastType = "success"

\* ---- SalesforceUIPatterns and the record tools
\* the selection step of selectLookupValue was reached and no page action
\* of the call rejected
LookupSelected ==
  /\ uiCall.op = "selectLookupValue"
  /\ uiCall.input.fail = "none"

\* C21: selectLookupValue with n >= 1 result candidates clicks exactly one
\* candidate, the one at the requested index when that index is in range
\* and the one at index 0 for every requested index out of range, and it
\* raises only when n = 0.
C21_LookupSelection ==
  (LookupSelected /\ uiCall.input.n >= 1) =>
    /\ uiCall.raised = "none"
    /\ ClicksOn(uiCall.log, "option") =
         <<EI("click", "option",
              IF uiCall.input.selectIndex \in 0..(uiCall.input.n - 1)
              THEN uiCall.input.selectIndex ELSE 0)>>

CheckboxClicks == Len(ClicksOn(uiCall.log, "checkbox"))

\* C22: setCheckbox clicks the checkbox iff its current checked state
\* differs from the desired state, so a checkbox that is already correct
\* is not clicked, and two setCheckbox calls in a row with the same
\* desired value perform at most one click in total.
C22_CheckboxIdempotent ==
  uiCall.op = "setCheckbox" =>
    /\ CheckboxClicks <= 1
    /\ CheckboxClicks = 1 => uiCall.before # uiCall.input.checked
    /\ uiCall.raised = "none" =>
         (CheckboxClicks = 1 <=> uiCall.before # uiCall.input.checked)
    /\ uiCall.raised = "none" => uiPage.checked = uiCall.input.checked
    /\ (uiCall.prev.op = "setCheckbox"
        /\ uiCall.prev.checked = uiCall.input.checked) =>
         uiCall.prev.clicks + CheckboxClicks <= 1

\* the second of two equal setCheckbox calls, after a first that clicked
C22_Witness ==
  /\ uiCall.op = "setCheckbox"
  /\ uiCall.raised = "none"
  /\ uiCall.prev.op = "setCheckbox"
  /\ uiCall.prev.checked = uiCall.input.checked
  /\ uiCall.prev.clicks = 1
  /\ CheckboxClicks = 0

\* sf_record_save got its page and the click on Save completed
SaveClicked ==
  /\ uiCall.op = "handleRecordSave"
  /\ Len(ClicksOn(uiCall.log, "saveButton")) = 1

Unverified == "Save operation completed but could not verify result"

\* C23: after a successful click on Save, saveRecord never raises; with a
\* toast it reports success iff the toast type is success; when the toast
\* wait times out it reports success if the URL looks like a view URL and
\* otherwise an unverifiable completion, which sf_record_save does not
\* treat as an error.
C23_SaveOutcome ==
  SaveClicked =>
    /\ uiCall.raised = "none"
    /\ uiCall.input.toast # "timeout" =>
         (uiCall.ret.success = "true" <=> uiCall.input.toast = "success")
    /\ (uiCall.input.toast = "timeout" /\ uiCall.input.viewUrl) =>
         uiCall.ret.success = "true"
    /\ (uiCall.input.toast = "timeout" /\ ~uiCall.input.viewUrl) =>
         /\ uiCall.ret.message = Unverified
         /\ uiCall.input.probe2 = "ok" => uiCall.tool.isError # "true"

\* openApp got past the click on the App Launcher button
LauncherClicked ==
  /\ uiCall.op = "openApp"
  /\ Len(ClicksOn(uiCall.log, "launcher")) = 1

Acts(log, act) == SelectSeq(log, LAMBDA e : e.act = act)

\* the first selector of a list, in list order, among those in S
Earliest(S) == CHOOSE i \in S : \A j \in S : i <= j

\* the steps of a log without the isVisible probes, as <<act, target>>
StepsOf(log) ==
  LET l == SelectSeq(log, LAMBDA e : e.act # "probe")
  IN [i \in 1..Len(l) |-> <<l[i].act, l[i].target>>]

\* the entry candidates that are visible and whose click does not reject
Clickable == uiCall.input.apps \ uiCall.input.bad

DialogOpened ==
  /\ uiCall.op = "handleRecordDelete"
  /\ Acts(uiCall.log, "wait") # <<>>
  /\ uiCall.log[2] = E("wait", "modal")

ConfirmationRequired == "Delete confirmation dialog is open"

\* C30: handleRecordDelete clicks the confirming Delete button of the
\* dialog only when the confirm argument is true; with confirm absent or
\* false it opens the dialog, clicks nothing inside it and reports that
\* confirmation is still required.
C30_DeleteNeedsConfirm ==
  uiCall.op = "handleRecordDelete" =>
    /\ ClicksOn(uiCall.log, "confirmButton") # <<>> =>
         uiCall.input.confirm = "true"
    /\ (DialogOpened /\ uiCall.input.confirm # "true") =>
         /\ uiCall.log = <<E("click", "deleteButton"), E("wait", "modal")>>
         /\ uiCall.raised = "none"
         /\ uiCall.ret.message = ConfirmationRequired
         /\ uiCall.tool = SuccessResult

\* the dialog is open after a call without the confirm argument
C30_Witness ==
  /\ DialogOpened
  /\ uiCall.input.confirm = "absent"
  /\ uiCall.ret.message = ConfirmationRequired

\* ---- the token refresh monitor and refreshToken
\* C25: the monitor is started only by a startSession that succeeds and
\* is stopped by closeSession; its callback refetches only while the
\* status is connected, and whether the refetch succeeds or fails the
\* callback leaves the status, the resource handles and the result of
\* every call as they were.
C25_MonitorContained ==
  [][/\ (tokenRefreshInterval = 0 /\ tokenRefreshInterval' # 0) =>
          /\ call.op = "start"
          /\ state'.status = "connected"
          /\ result'.kind = "ok"
     /\ (call'.op = "close" /\ pc' = "idle") => tokenRefreshInterval' = 0
     /\ MonitorTick =>
          /\ state' = state
          /\ UNCHANGED <<tokenRefreshInterval, urlBuilder, live, pc, call,
                         result, toolResult>>
          /\ cache' # cache => state.status = "connected"]_vars

\* no call was made since the session started, and the cache entry of the
\* session's org is younger than the session: the monitor refetched it
C25_Witness ==
  /\ call.op = "start"
  /\ pc = "idle"
  /\ state.status = "connected"
  /\ tokenRefreshInterval # 0
  /\ cache[state.orgAlias].cachedAt > state.lastActivity

Issued(step) == \E i \in 1..Len(trace) : trace[i] = step

RefreshSettled == call.op = "refresh" /\ pc = "idle"

\* what the claim says of a refreshToken call that has settled
RefreshContract ==
  /\ Issued("refresh")
  /\ result.kind = "raised" => result.code = "SESSION_EXPIRED"
  /\ call.loggedIn = "yes" => ~Issued("goto")
  /\ result.kind = "ok" => (Issued("goto") <=> call.loggedIn = "no")

\* C26: refreshToken always force-refetches the credentials; it navigates
\* the page to a fresh frontdoor URL iff the page no longer shows the
\* authenticated app container and otherwise issues no navigation; any
\* failure is raised as SESSION_EXPIRED.
C26_Original == RefreshSettled => RefreshContract

\* C26 (amended): with an org alias set (a session was started at some
\* point) refreshToken force-refetches the credentials, navigates an
\* existing page to a fresh frontdoor URL iff that page does not show the
\* app container, and raises any failure as SESSION_EXPIRED; with no org
\* alias it raises SESSION_NOT_STARTED and contacts nothing.
C26_RefreshToken ==
  RefreshSettled =>
    IF state.orgAlias # "null"
    THEN /\ RefreshContract
         /\ Issued("goto") => state.page # 0
    ELSE /\ trace = <<>>
         /\ result.kind = "raised"
         /\ result.code = "SESSION_NOT_STARTED"

\* a refresh that found the page logged out and sent it to the frontdoor
C26_Witness ==
  /\ RefreshSettled
  /\ result.kind = "ok"
  /\ call.loggedIn = "no"
  /\ Issued("goto")

\* ---- SalesforceUrlBuilder
\* the last two calls were the same path function with the same arguments
SameCall ==
  /\ urlCall.last.fn \in PathFunctions
  /\ urlCall.prev.fn = urlCall.last.fn
  /\ urlCall.prev.a = urlCall.last.a
  /\ urlCall.prev.b = urlCall.last.b

C28_ShutdownCloses ==
  proc.pc = "exited" =>
    /\ proc.held \cap proc.atExit = {}
    /\ proc.status = "disconnected"
    /\ proc.code = ExitCode(proc.cause)

\* the process has exited after a shutdown that found a connected session
C28_Witness ==
  /\ proc.pc = "exited"
  /\ proc.held = {<<"page", 1>>, <<"context", 1>>, <<"browser", 1>>}
  /\ proc.atExit = {}

\* ---- credential cache, expiry
\* the entry getOrgInfo found is still the one in the map
StaleKept == cache[lastGet.alias].orgInfo = lastGet.cached

\* the last getOrgInfo found an entry whose age had reached the TTL
ReadExpired ==
  /\ lastGet.alias # "null"
  /\ lastGet.hadEntry
  /\ lastGet.age >= CACHE_TTL_MS

\* C29 (as stated): after getOrgInfo has read an entry whose age is at
\* least the TTL, that entry is no longer in the cache, whether the
\* refetch succeeded or failed.
C29_Original == ReadExpired => ~StaleKept

\* C29 (amended): a read of an entry whose age is at least the TTL always
\* invokes the fetch; the entry is replaced by the fetched one when the
\* fetch succeeds and stays in the cache untouched when it fails.  An
\* entry changes only in a getOrgInfo whose fetch succeeded, to the
\* fetched value stamped with the current time, or in clearCache, which
\* empties the whole map.
C29_LazyExpiry ==
  [][\A a \in Aliases :
       /\ cache'[a] # cache[a] =>
            \/ /\ lastGet'.alias = a
               /\ lastGet'.invoked
               /\ ~lastGet'.failed
               /\ cache'[a] = [orgInfo |-> lastGet'.returned,
                               cachedAt |-> now,
                               expiresAt |-> now + CACHE_TTL_MS]
            \/ /\ lastGet'.alias = "null"
               /\ lastGet'.afterClear
               /\ \A b \in Aliases : cache'[b] = NoEntry
       /\ ( /\ lastGet' # lastGet
            /\ lastGet'.alias = a
            /\ lastGet'.hadEntry
            /\ lastGet'.age >= CACHE_TTL_MS ) =>
            /\ lastGet'.invoked
            /\ lastGet'.failed => cache'[a] = cache[a]
            /\ ~lastGet'.failed => cache'[a].cachedAt = now
  ]_vars

\* an expired entry was read, the refetch failed, and the entry is still
\* in the cache
C29_Witness ==
  /\ ReadExpired
  /\ ~lastGet.force
  /\ lastGet.failed
  /\ StaleKept
  /\ cache[lastGet.alias] # NoEntry

\* ---- sf_record_save, waitForSave
\* C31: once Save has been clicked, sf_record_save called with waitForSave
\* = false returns its 'Save initiated' success without having waited for
\* a toast; with waitForSave true or absent it returns the outcome
\* saveRecord reported.
C31_SaveWait ==
  SaveClicked =>
    IF uiCall.input.waitForSave = "false"
    THEN /\ uiCall.tool = SuccessResult
         /\ Acts(uiCall.log, "wait") = <<>>
    ELSE uiCall.input.probe2 = "ok" =>
           uiCall.tool = OutcomeResult(uiCall.ret.success)

\* ---- waitForLightningReady, URL debounce
\* the debounce loop is left in this step
DebounceLeft == wpc = "stable" /\ wpc' # "stable"

\* the debounce loop takes one sample in this step
DebounceSample == wpc = "stable" /\ wpc' = "stable" /\ wcall' # wcall

\* C32 (as stated): the steps after the debounce are entered only once
\* the URL has been seen unchanged in 3 consecutive samples.
C32_Original ==
  [][DebounceLeft => wcall.stableCount = STABLE_SAMPLES]_vars

\* C32 (amended): the debounce samples the URL every 500 ms, counting a
\* sample equal to the one before and setting the count back to 0 on a
\* changed one; it is left, always to the DOM wait and never by raising,
\* once the count has reached 3 or once the whole timeout has elapsed,
\* whichever comes first.
C32_Debounce ==
  [][/\ DebounceLeft =>
          /\ \/ wcall.stableCount = STABLE_SAMPLES
             \/ wclock >= wcall.timeout
          /\ wpc' = "dom"
     /\ DebounceSample =>
          /\ wcall.stableCount < STABLE_SAMPLES
          /\ wclock < wcall.timeout
          /\ wclock' = wclock + URL_SAMPLE
          /\ wcall'.stableCount =
               IF pageState'.url = wcall.lastUrl
               THEN wcall.stableCount + 1 ELSE 0
          /\ wcall'.lastUrl = pageState'.url
  ]_vars

\* the DOM wait has been entered before the timeout was used up, i.e.
\* after three equal samples in a row
C32_Witness ==
  /\ wcall.kind = "waitForLightningReady"
  /\ wpc = "dom"
  /\ wclock < wcall.timeout
  /\ wclock >= STABLE_SAMPLES * URL_SAMPLE

\* ---- sf_wait_for_spinner
\* sf_wait_for_spinner has returned after waiting on the page
SpinnerWaitOver ==
  /\ wpc = "idle"
  /\ wcall.kind = "waitForNoSpinners"
  /\ toolResult.kind = "result"

\* C33: sf_wait_for_spinner reports 'Spinners have disappeared' only when
\* the page it leaves has no active spinner, and reports 'Spinners did
\* not disappear within timeout' when a spinner was active at every look
\* it took during the timeout.
C33_SpinnerReport ==
  SpinnerWaitOver =>
    /\ toolResult = SpinnersGone => NoneActive(pageState.spinners)
    /\ (~wcall.seen /\ wcall.timeout > 0) => toolResult = SpinnersStayed

\* ---- session state, what connected implies
\* C34: in every state the session is in between non-overlapping calls of
\* its operations, a connected session has its browser, context and page
\* handles, its orgInfo, its instanceUrl and its URL builder; and, in
\* every state, the URL builder exists exactly when instanceUrl is set.
C34_ConnectedComplete ==
  /\ (pc = "idle" /\ state.status = "connected") =>
       /\ state.browser # 0
       /\ state.context # 0
       /\ state.page # 0
       /\ state.orgInfo # NullInfo
       /\ state.instanceUrl # "null"
       /\ urlBuilder # "null"
  /\ urlBuilder # "null" <=> state.instanceUrl # "null"

\* a connected session on which a refresh has completed
C34_Witness ==
  /\ pc = "idle"
  /\ state.status = "connected"
  /\ call.op = "refresh"
  /\ result.kind = "ok"
  /\ urlBuilder = state.instanceUrl

\* ---- closeSession and the initial state
\* getStatus(): the five fields it reports
GetStatus(st) ==
  [status |-> st.status, instanceUrl |-> st.instanceUrl,
   orgInfo |-> st.orgInfo, orgAlias |-> st.orgAlias,
   lastActivity |-> st.lastActivity]

\* C35: when closeSession completes, whether called by sf_session_close
\* or by startSession (before the start, or after a failed one), every
\* field getStatus reports has the value it has in a freshly constructed
\* SessionManager.
C35_CloseRestoresInitial ==
  [][(pc = "close_reset" /\ pc' # pc) =>
       GetStatus(state') = GetStatus(InitialState)]_vars

\* ---- overlapping calls
\* C36: with startSession and closeSession calls overlapping, at most one
\* browser is live, at most one monitor timer is active, and every live
\* browser is the one the session state refers to.
C36_OverlapSafe ==
  /\ Cardinality(LiveOf("browser")) <= 1
  /\ Cardinality(LiveOf("timer")) <= 1
  /\ \A b \in LiveOf("browser") : state.browser = b[2]

\* ---- what disconnected implies
\* C37: between non-overlapping calls, a disconnected session has neither
\* orgInfo nor instanceUrl; and a refreshToken called on a disconnected
\* session (never started, or closed) raises SESSION_NOT_STARTED without
\* contacting anything.
C37_DisconnectedEmpty ==
  (pc = "idle" /\ state.status = "disconnected") =>
    /\ state.orgInfo = NullInfo
    /\ state.instanceUrl = "null"
    /\ call.op = "refresh" =>
         /\ result.kind = "raised"
         /\ result.code = "SESSION_NOT_STARTED"
         /\ trace = <<>>

\* ---- waitForLightningReady, container timeout
\* C38: waitForLightningReady raises 'Timeout waiting for Lightning
\* container' only after at least one probe of the page for a shell
\* container, so that a container shown when step (d) is reached is
\* found, whatever steps (a) to (c) used of the budget.
C38_ProbedBeforeRaise ==
  (WaitDone({"waitForLightningReady"}) /\ wcall.raisedIn = "shell") =>
    wcall.probes >= 1

\* ---- ensureSession, frame of a failure
\* a step of HandlePageTool: the only action that leaves a tool call as
\* the last call and neither the clock nor the cache changed
ToolStep ==
  /\ pc = "idle"
  /\ pc' = "idle"
  /\ call'.op = "tool"
  /\ UNCHANGED <<now, cache>>

\* C39: a tool call whose ensureSession raises SESSION_NOT_STARTED or
\* SESSION_EXPIRED leaves the session as it was: status, the handles,
\* orgInfo, lastActivity and every other field of the state, the live
\* resources, the monitor and the URL builder; a tool call changes
\* lastActivity only when its ensureSession succeeded.
C39_FailedEnsureFrame ==
  [][ToolStep =>
       /\ result'.kind = "raised" =>
            /\ result'.code \in {"SESSION_NOT_STARTED", "SESSION_EXPIRED"}
            /\ state' = state
            /\ UNCHANGED <<live, tokenRefreshInterval, urlBuilder>>
       /\ state'.lastActivity # state.lastActivity => result'.kind = "ok"
       /\ result'.kind = "ok" => state'.lastActivity = now
  ]_vars

\* the liveness probe failed on a connected session some time after its
\* last activity, and the session is still connected with all it held
C39_Witness ==
  /\ Settled("tool")
  /\ result.code = "SESSION_EXPIRED"
  /\ state.status = "connected"
  /\ state.lastActivity < now
  /\ state.page # 0
  /\ tokenRefreshInterval # 0
  /\ LiveOf("browser") # {}

\* ---- credential cache, failed fetch
\* C40: when the external credential source fails during getOrgInfo,
\* forced or not, the error reaches the caller (nothing is returned) and
\* the cache holds exactly the entries it held before the call, for the
\* alias asked for and for every other alias.
C40_FailedFetchFrame ==
  [][(lastGet' # lastGet /\ lastGet'.failed) =>
       /\ lastGet'.invoked
       /\ lastGet'.returned = NullInfo
       /\ \A a \in Aliases : cache'[a] = cache[a]
  ]_vars

\* a forced refetch failed with entries for both aliases in the cache, and
\* both are still there
C40_Witness ==
  /\ lastGet.failed
  /\ lastGet.force
  /\ lastGet.hadEntry
  /\ \A a \in Aliases : cache[a] # NoEntry
  /\ cache[lastGet.alias].orgInfo = lastGet.cached

====
